---------------------------- MODULE Spec2Model ----------------------------
(***************************************************************************)
(* Edge transport of nnstreamer (nnstreamer_edge_internal.c): handles,     *)
(* the connect/accept handshake, the connection table, receiver threads    *)
(* and the request/respond operations, as a state machine over two nodes.  *)
(***************************************************************************)
EXTENDS Integers, Sequences, FiniteSets, TLC

(***************************************************************************)
(* Bounds of the model.                                                     *)
(***************************************************************************)
MaxConn == 5       \* nns_edge_conn_s objects ever allocated
MaxLink == 2       \* TCP connections ever opened
MaxEntry == 4      \* nns_edge_conn_data_s objects ever allocated
MaxTime == 2       \* readings of the monotonic clock
MaxFault == 1      \* I/O faults injected by the environment
MaxOps == 2        \* public calls issued by the application threads
MaxBufs == 1       \* buffers in an EdgeData handed to request/respond
MaxHdrNum == 18    \* largest buffer count a received header advertises
MaxBufLen == 2     \* bytes in one buffer of a frame on the byte stream
MaxCaps == 2       \* calls of set_info (CAPS) on one handle
MaxClose == 2      \* calls of _nns_edge_close_connection on one Connection
MaxFrames == 2     \* frames the remote ends write in a run

(***************************************************************************)
(* Program constants.                                                       *)
(***************************************************************************)
NNS_EDGE_DATA_LIMIT == 16
NULL == 0

Node == {"A", "B"}
AppThread == {"tA", "uA", "tB"}
LoopThread == {"mA", "mB"}
Thread == AppThread \cup LoopThread
ThreadNode(t) == IF t \in {"tA", "uA", "mA"} THEN "A" ELSE "B"

ConnId == 1..MaxConn
LinkId == 1..MaxLink

VARIABLES
  eh,          \* nns_edge_handle_s of each node
  lock,        \* owner of each handle's mutex, "free" or "destroyed"
  conn_table,  \* eh->conn_table: key |-> nns_edge_conn_data_s
  conns,       \* heap of nns_edge_conn_s, with the receiver thread of each
  links,       \* TCP connections: two ends and the frames in flight
  backlog,     \* sockets waiting on each listener
  pc,          \* position of every application thread and main loop
  loc,         \* locals of the call each thread is in
  ret,         \* what the last public call of each thread returned
  alloc,       \* allocation counters and the monotonic clock
  crashed,     \* the process of the node has been killed by a signal
  ub,          \* undefined behaviour executed so far
  cmdrx        \* the frame _nns_edge_cmd_receive is working on (codec runs)

vars == <<eh, lock, conn_table, conns, links, backlog, pc, loc, ret, alloc,
          crashed, ub, cmdrx>>

(***************************************************************************)
(* Strings.  A string is a sequence of one-character strings.              *)
(***************************************************************************)
Digits == <<"0", "1", "2", "3", "4", "5", "6", "7", "8", "9">>
IsDigit(ch) == \E d \in 1..10 : Digits[d] = ch
DigitVal(ch) == (CHOOSE d \in 1..10 : Digits[d] = ch) - 1

\* g_strdup_printf ("%ld", (long int) client_id) and "%d", for values >= 0
RECURSIVE FormatLong(_)
FormatLong(n) ==
  IF n < 10 THEN <<Digits[n + 1]>>
  ELSE Append(FormatLong(n \div 10), Digits[(n % 10) + 1])

\* g_ascii_strtoll (val, NULL, 10): the leading digits, 0 when there are none
RECURSIVE StrtollFrom(_, _, _)
StrtollFrom(s, i, acc) ==
  IF i > Len(s) THEN acc
  ELSE IF ~IsDigit(s[i]) THEN acc
  ELSE StrtollFrom(s, i + 1, acc * 10 + DigitVal(s[i]))

g_ascii_strtoll(s) == StrtollFrom(s, 1, 0)

\* _get_host_str: "%s:%d" of the receiving ip and port
_get_host_str(ip, port) == ip \o <<":">> \o FormatLong(port)

\* g_strrstr (host, ":"): index of the last ':' or 0
RECURSIVE LastColon(_, _)
LastColon(s, i) ==
  IF i = 0 THEN 0 ELSE IF s[i] = ":" THEN i ELSE LastColon(s, i - 1)

\* _parse_host_str: ip and port stay as they were when there is no ':'
_parse_host_str(host, ip0, port0) ==
  LET p == LastColon(host, Len(host)) IN
  IF p = 0 THEN [ip |-> ip0, port |-> port0]
  ELSE [ip |-> SubSeq(host, 1, p - 1),
        port |-> g_ascii_strtoll(SubSeq(host, p + 1, Len(host)))]

(***************************************************************************)
(* Values.                                                                  *)
(***************************************************************************)
Localhost == <<"l", "o", "c", "a", "l", "h", "o", "s", "t">>

\* _get_available_port and the port the system binds for port 0
AvailablePort(n) == IF n = "A" THEN 1 ELSE 2

\* an EdgeData handle: nns_edge_data_is_valid, its buffers, its "client_id" info
EdgeData(valid, bufs, has, val) ==
  [valid |-> valid, bufs |-> bufs, has_id |-> has, id_val |-> val]

NoData == EdgeData(FALSE, <<>>, FALSE, <<>>)

BufSeqs == {<<>>} \cup {[i \in 1..k |-> i] : k \in 1..MaxBufs}

MetaVals == {FormatLong(x) : x \in 1..MaxTime} \cup {<<"x">>}

\* data handed to request: invalid, or valid with some buffers (request
\* writes the metadata itself)
RequestInputs == {NoData} \cup {EdgeData(TRUE, b, FALSE, <<>>) : b \in BufSeqs}

\* data handed to respond: invalid, or valid with or without "client_id"
RespondInputs ==
  {NoData, EdgeData(TRUE, <<>>, FALSE, <<>>)} \cup
  {EdgeData(TRUE, <<>>, TRUE, v) : v \in MetaVals}

\* nns_edge_cmd_s: the header fields and the buffers that follow it
Frame(cmd, cid, mem) == [cmd |-> cmd, client_id |-> cid, num |-> Len(mem), mem |-> mem]

\* _nns_edge_cmd_init: memset and the two fields
_nns_edge_cmd_init(c, cid) == Frame(c, cid, <<>>)


EmptyTable == [k \in {} |-> NULL]

HandleInit ==
  [mem |-> "live", magic |-> "VALID", is_server |-> TRUE, client_id |-> 0,
   event_cb |-> FALSE, caps_null |-> TRUE, caps_str |-> <<>>, caps_set |-> <<>>,
   topic |-> <<"t">>,
   recv_ip |-> Localhost, recv_port |-> 0,
   listener |-> FALSE, lport |-> 0, armed |-> FALSE]

ConnInit ==
  [st |-> "free", node |-> "A", link |-> NULL, side |-> "d", socket |-> FALSE,
   cancellable |-> FALSE, running |-> 0, thread |-> "none", tcid |-> 0,
   events |-> <<>>, cbret |-> <<>>, rx |-> Frame("-", 0, <<>>)]

LinkInit ==
  [st |-> "free", d_node |-> "A", a_node |-> "A", d_open |-> FALSE, a_open |-> FALSE,
   d2a |-> <<>>, a2d |-> <<>>, wrote |-> <<>>]

LocInit ==
  [op |-> "none", arg |-> 0, data |-> NoData, key |-> <<>>, val |-> <<>>,
   conn |-> NULL, client_id |-> 0, cdata |-> NULL, dir |-> "none",
   ip |-> <<>>, port |-> 0, has_ip |-> FALSE, sent |-> 0, cb |-> "-",
   inbound |-> NULL]

RetInit == [op |-> "none", status |-> "-", sent |-> 0, cb |-> "-", id |-> 0, conn |-> NULL,
            bufs |-> <<>>]

\* no run of _nns_edge_cmd_receive on a peer's bytes is in progress
CmdRxInit == [st |-> "off", num |-> 0, n |-> 0, slots |-> 0, held |-> 0, ret |-> "-"]

Init ==
  /\ eh = [n \in Node |-> HandleInit]
  /\ lock = [n \in Node |-> "free"]
  /\ conn_table = [n \in Node |-> EmptyTable]
  /\ conns = [c \in ConnId |-> ConnInit]
  /\ links = [l \in LinkId |-> LinkInit]
  /\ backlog = [n \in Node |-> <<>>]
  /\ pc = [t \in Thread |-> "idle"]
  /\ loc = [t \in Thread |-> LocInit]
  /\ ret = [t \in Thread |-> RetInit]
  /\ alloc = [conn |-> 1, link |-> 1, entry |-> 1, time |-> 0, faults |-> 0,
              iofail |-> FALSE, ops |-> 0]
  /\ crashed = [n \in Node |-> FALSE]
  /\ ub = {}
  /\ cmdrx = CmdRxInit

(***************************************************************************)
(* The connection table (GHashTable with g_direct_hash, g_direct_equal).   *)
(***************************************************************************)
\* GUINT_TO_POINTER (client_id): (gpointer) (gulong) of the value; the model
\* is of a build whose gulong and pointers are 64 bits wide
GUINT_TO_POINTER(u) == u

NNS_EDGE_MAGIC_IS_VALID(n) == eh[n].magic = "VALID"

\* a lookup that ignores the key
g_hash_table_lookup_AnyKey(n, key) ==
  IF DOMAIN conn_table[n] = {} THEN NULL
  ELSE conn_table[n][CHOOSE k \in DOMAIN conn_table[n] : TRUE].addr

\* g_hash_table_lookup: address of the value stored under the key, or NULL
g_hash_table_lookup(n, key) ==
  IF key \in DOMAIN conn_table[n] THEN conn_table[n][key].addr ELSE NULL

_nns_edge_get_conn(n, client_id) ==
  IF ~NNS_EDGE_MAGIC_IS_VALID(n) THEN NULL
  ELSE g_hash_table_lookup(n, GUINT_TO_POINTER(client_id))

\* the nns_edge_conn_data_s at an address is allocated while the table holds it
EntryLive(n, a) == \E k \in DOMAIN conn_table[n] : conn_table[n][k].addr = a
EntryKey(n, a) == CHOOSE k \in DOMAIN conn_table[n] : conn_table[n][k].addr = a
EntryAt(n, a) == conn_table[n][EntryKey(n, a)]

TablePut(tbl, key, e) ==
  [k \in DOMAIN tbl \cup {key} |-> IF k = key THEN e ELSE tbl[k]]

(***************************************************************************)
(* Sockets.  A link is one TCP connection; the dialling end is "d", the    *)
(* accepted end is "a"; each direction is a queue of frames.               *)
(***************************************************************************)
InQ(c) == IF conns[c].side = "d" THEN links[conns[c].link].a2d
          ELSE links[conns[c].link].d2a

PeerOpen(c) == IF conns[c].side = "d" THEN links[conns[c].link].a_open
               ELSE links[conns[c].link].d_open

\* g_socket_send of a whole frame: queued for the peer when it succeeds
LinkSend(L, c, f) ==
  LET l == conns[c].link IN
  IF conns[c].side = "d"
  THEN (IF L[l].a_open THEN [L EXCEPT ![l].d2a = Append(@, f)] ELSE L)
  ELSE (IF L[l].d_open THEN [L EXCEPT ![l].a2d = Append(@, f)] ELSE L)

\* g_socket_receive of a whole frame: the head of the queue is consumed
LinkRecv(L, c) ==
  LET l == conns[c].link IN
  IF conns[c].side = "d" THEN [L EXCEPT ![l].a2d = Tail(@)]
  ELSE [L EXCEPT ![l].d2a = Tail(@)]

\* g_socket_close of the socket of a Connection
LinkClose(L, C, c) ==
  IF c = NULL THEN L
  ELSE IF ~C[c].socket THEN L
  ELSE IF C[c].side = "d" THEN [L EXCEPT ![C[c].link].d_open = FALSE]
  ELSE [L EXCEPT ![C[c].link].a_open = FALSE]

\* outcomes of a send: it can fail once the peer has closed, or by a fault
SendOutcomes(c) ==
  {TRUE} \cup (IF ~PeerOpen(c) \/ alloc.faults < MaxFault THEN {FALSE} ELSE {})

\* a blocked receive returns a frame, or fails while nothing is queued: at
\* end of stream, by a fault, or by the timeout set on an accepted socket
\* (g_socket_set_timeout, DEFAULT_TIMEOUT_SEC)
RecvOutcomes(c) ==
  IF Len(InQ(c)) > 0 THEN {TRUE}
  ELSE IF ~PeerOpen(c) \/ conns[c].side = "a" \/ alloc.faults < MaxFault
  THEN {FALSE} ELSE {}

\* an injected fault is counted; a failure the peer's close or the timeout
\* explains is not
CountFault(c, ok) ==
  IF ~ok /\ PeerOpen(c) /\ alloc.faults < MaxFault
  THEN [alloc EXCEPT !.faults = @ + 1] ELSE alloc

\* _nns_edge_check_connection: a condition is set and no byte is available
_nns_edge_check_connection(c) ==
  IF c = NULL THEN FALSE
  ELSE LET condition == Len(InQ(c)) > 0 \/ ~PeerOpen(c)
           size == Len(InQ(c))
       IN ~(condition /\ size <= 0)

(***************************************************************************)
(* _nns_edge_close_connection.  The receiver thread was created detached,  *)
(* so pthread_join on it is undefined: the C library either returns EINVAL *)
(* at once or aborts the process (JoinOutcomes).                           *)
(***************************************************************************)
JoinOutcomes == {"EINVAL", "abort"}

NeedsJoin(C, c) == c # NULL /\ C[c].running = 1

\* a close that leaves the Connection as it is
_nns_edge_close_connection_Leak(C, c) == C

\* the fields of the Connection after close: running cleared, socket closed
\* and unreferenced, cancellable unreferenced, memory freed
_nns_edge_close_connection(C, c) ==
  IF c = NULL THEN C
  ELSE [C EXCEPT ![c].running = 0, ![c].socket = FALSE,
                 ![c].cancellable = FALSE, ![c].st = "freed"]

RECURSIVE CloseAll(_, _)
CloseAll(W, S) ==
  IF S = {} THEN W
  ELSE LET c == CHOOSE x \in S : TRUE IN
       CloseAll([conns |-> _nns_edge_close_connection(W.conns, c),
                 links |-> LinkClose(W.links, W.conns, c)], S \ {c})

\* _nns_edge_remove_conn over every value of the table: both Connections closed
TableConns(n) ==
  ({conn_table[n][k].src_conn : k \in DOMAIN conn_table[n]} \cup
   {conn_table[n][k].sink_conn : k \in DOMAIN conn_table[n]}) \ {NULL}

\* a removal hook that closes cdata->src_conn only
_nns_edge_remove_conn_SrcOnly(n, S) ==
  CloseAll([conns |-> conns, links |-> links],
           {c \in S : \E k \in DOMAIN conn_table[n] : conn_table[n][k].src_conn = c})

_nns_edge_remove_conn(n, S) == CloseAll([conns |-> conns, links |-> links], S)

\* the process of node n is killed: its sockets are closed by the system
KillLinks(n) ==
  [l \in LinkId |->
     [links[l] EXCEPT
        !.d_open = @ /\ links[l].d_node # n,
        !.a_open = @ /\ links[l].a_node # n]]

Crash(n) ==
  /\ crashed' = [crashed EXCEPT ![n] = TRUE]
  /\ links' = KillLinks(n)

(***************************************************************************)
(* Public calls.  A call is entered (pc "lock"), takes the handle lock     *)
(* (pc is the name of the call) and runs its body.                         *)
(***************************************************************************)
Live(t) == ~crashed[ThreadNode(t)]

\* the application issues calls only on a handle it has not yet seen released
MayCall(t) ==
  /\ pc[t] = "idle" /\ Live(t)
  /\ eh[ThreadNode(t)].mem = "live"
  /\ alloc.ops < MaxOps

Enter(t, o, l) ==
  /\ pc' = [pc EXCEPT ![t] = "lock"]
  /\ loc' = [loc EXCEPT ![t] = l]
  /\ alloc' = [alloc EXCEPT !.ops = @ + 1]
  /\ UNCHANGED <<eh, lock, conn_table, conns, links, backlog, ret, crashed, ub, cmdrx>>

\* return of a call: the status and the number of frames it wrote
Finish(t, status) ==
  /\ pc' = [pc EXCEPT ![t] = "idle"]
  /\ ret' = [ret EXCEPT ![t] = [op |-> loc[t].op, status |-> status,
                                   sent |-> loc[t].sent, cb |-> loc[t].cb,
                                   id |-> loc[t].client_id, conn |-> loc[t].conn,
                                   bufs |-> loc[t].data.bufs]]
  /\ loc' = [loc EXCEPT ![t] = LocInit]

\* return of request or respond: the peer identifier the call looked up
FinishSent(t, status, sent, id) ==
  /\ pc' = [pc EXCEPT ![t] = "idle"]
  /\ ret' = [ret EXCEPT ![t] = [op |-> loc[t].op, status |-> status, sent |-> sent,
                                   cb |-> loc[t].cb, id |-> id, conn |-> loc[t].conn,
                                   bufs |-> loc[t].data.bufs]]
  /\ loc' = [loc EXCEPT ![t] = LocInit]

nns_edge_unlock(n) ==
  lock' = [lock EXCEPT ![n] = IF @ = "destroyed" THEN @ ELSE "free"]

CallStart(t, is_server) ==
  /\ MayCall(t) /\ ~eh[ThreadNode(t)].listener
  /\ Enter(t, "start", [LocInit EXCEPT !.op = "start", !.arg = IF is_server THEN 1 ELSE 0])

CallConnect(t, port) ==
  /\ MayCall(t)
  /\ alloc.conn <= MaxConn /\ alloc.link <= MaxLink
  /\ Enter(t, "connect", [LocInit EXCEPT !.op = "connect", !.ip = Localhost,
                                          !.has_ip = TRUE, !.port = port])

CallDisconnect(t) ==
  /\ MayCall(t)
  /\ Enter(t, "disconnect", [LocInit EXCEPT !.op = "disconnect"])

CallSetInfo(t, key, value) ==
  /\ MayCall(t)
  /\ Enter(t, "set_info", [LocInit EXCEPT !.op = "set_info", !.key = key, !.val = value])

CallSetEventCallback(t, cb) ==
  /\ MayCall(t)
  /\ Enter(t, "set_event_callback",
           [LocInit EXCEPT !.op = "set_event_callback", !.arg = IF cb THEN 1 ELSE 0])

CallRelease(t) ==
  /\ MayCall(t)
  /\ Enter(t, "release", [LocInit EXCEPT !.op = "release"])

\* nns_edge_request, nns_edge_respond: an invalid data handle is refused
\* before the lock is taken
CallData(t, o, d) ==
  /\ MayCall(t)
  /\ IF ~d.valid
     THEN /\ pc' = pc
          /\ ret' = [ret EXCEPT ![t] = [RetInit EXCEPT !.op = o, !.status = "INVALID_PARAMETER"]]
          /\ loc' = loc
          /\ alloc' = [alloc EXCEPT !.ops = @ + 1]
          /\ UNCHANGED <<eh, lock, conn_table, conns, links, backlog, crashed, ub, cmdrx>>
     ELSE Enter(t, o, [LocInit EXCEPT !.op = o, !.data = d])

CallRequest(t, d) == CallData(t, "request", d)
CallRespond(t, d) == CallData(t, "respond", d)

\* a lock that does not wait for its owner
nns_edge_lock_NoWait(t) ==
  LET n == ThreadNode(t) IN
  /\ pc[t] = "lock" /\ Live(t)
  /\ lock' = [lock EXCEPT ![n] = t]
  /\ pc' = [pc EXCEPT ![t] = loc[t].op]
  /\ UNCHANGED <<eh, conn_table, conns, links, backlog, loc, ret, alloc, crashed, ub, cmdrx>>

\* nns_edge_lock: blocks while another thread owns the mutex.  Locking the
\* mutex of a handle that release has destroyed or freed is undefined.
nns_edge_lock(t) ==
  LET n == ThreadNode(t) IN
  /\ pc[t] = "lock" /\ Live(t)
  /\ IF eh[n].mem = "freed" \/ lock[n] = "destroyed"
     THEN /\ ub' = ub \cup {"lock-after-release"}
          /\ pc' = [pc EXCEPT ![t] = "undefined"]
          /\ UNCHANGED lock
     ELSE /\ lock[n] = "free"
          /\ lock' = [lock EXCEPT ![n] = t]
          /\ pc' = [pc EXCEPT ![t] = loc[t].op]
          /\ UNCHANGED ub
  /\ UNCHANGED <<eh, conn_table, conns, links, backlog, loc, ret, alloc, crashed, cmdrx>>

\* a thread inside a call reads the handle after release has freed it
BodyPcs == {"start", "connect", "disconnect", "request", "respond", "set_info",
            "set_event_callback", "release"}

InBody(t, o) == pc[t] = o /\ Live(t) /\ eh[ThreadNode(t)].mem = "live"

ReadFreedHandle(t) ==
  /\ pc[t] \in BodyPcs /\ Live(t)
  /\ eh[ThreadNode(t)].mem = "freed"
  /\ ub' = ub \cup {"handle-read-after-free"}
  /\ pc' = [pc EXCEPT ![t] = "undefined"]
  /\ UNCHANGED <<eh, lock, conn_table, conns, links, backlog, loc, ret, alloc, crashed, cmdrx>>

\* the common refusal of a dead handle: unlock and InvalidParameter
InvalidHandle(t) ==
  /\ nns_edge_unlock(ThreadNode(t))
  /\ Finish(t, "INVALID_PARAMETER")
  /\ UNCHANGED <<eh, conn_table, conns, links, backlog, alloc, crashed, ub, cmdrx>>

(***************************************************************************)
(* nns_edge_start                                                           *)
(***************************************************************************)
PortInUse(p) == \E m \in Node : eh[m].listener /\ eh[m].lport = p /\ ~crashed[m]

nns_edge_start(t) ==
  LET n == ThreadNode(t)
      is_server == loc[t].arg = 1
      port == IF ~is_server /\ eh[n].recv_port = 0 THEN AvailablePort(n)
              ELSE eh[n].recv_port
      bind == IF port = 0 THEN AvailablePort(n) ELSE port
  IN
  /\ InBody(t, "start")
  /\ IF ~NNS_EDGE_MAGIC_IS_VALID(n) THEN InvalidHandle(t)
     ELSE IF PortInUse(bind)
     THEN \* g_socket_listener_add_address fails: no accept is armed
          /\ eh' = [eh EXCEPT ![n].is_server = is_server, ![n].recv_port = port]
          /\ nns_edge_unlock(n)
          /\ Finish(t, "CONNECTION_FAILURE")
          /\ UNCHANGED <<conn_table, conns, links, backlog, alloc, crashed, ub, cmdrx>>
     ELSE /\ eh' = [eh EXCEPT ![n].is_server = is_server, ![n].recv_port = port,
                              ![n].listener = TRUE, ![n].lport = bind,
                              ![n].armed = TRUE]
          /\ nns_edge_unlock(n)
          /\ Finish(t, "NONE")
          /\ UNCHANGED <<conn_table, conns, links, backlog, alloc, crashed, ub, cmdrx>>

(***************************************************************************)
(* nns_edge_set_info                                                        *)
(***************************************************************************)
\* _STR_NULL (str)
_STR_NULL(is_null, str) == IF is_null THEN <<"(", "N", "U", "L", "L", ")">> ELSE str

nns_edge_set_info(t) ==
  LET n == ThreadNode(t)
      key == loc[t].key
      value == loc[t].val
  IN
  /\ InBody(t, "set_info")
  /\ IF ~NNS_EDGE_MAGIC_IS_VALID(n) THEN InvalidHandle(t)
     ELSE /\ eh' = IF key = "CAPS"
                   THEN [eh EXCEPT ![n].caps_str = _STR_NULL(eh[n].caps_null, @) \o value,
                                   ![n].caps_null = FALSE,
                                   ![n].caps_set = @ \o value]
                   ELSE IF key = "IP" THEN [eh EXCEPT ![n].recv_ip = value]
                   ELSE IF key = "PORT" THEN [eh EXCEPT ![n].recv_port = g_ascii_strtoll(value)]
                   ELSE IF key = "TOPIC" THEN [eh EXCEPT ![n].topic = value]
                   ELSE eh
          /\ nns_edge_unlock(n)
          /\ Finish(t, "NONE")
          /\ UNCHANGED <<conn_table, conns, links, backlog, alloc, crashed, ub, cmdrx>>

(***************************************************************************)
(* _nns_edge_invoke_event_cb: a NULL callback returns success; a callback   *)
(* returns success or an error of its own choosing.                         *)
(***************************************************************************)
CallbackReturns(n) == IF eh[n].event_cb THEN {"NONE", "UNKNOWN"} ELSE {"NONE"}

(***************************************************************************)
(* nns_edge_set_event_callback                                              *)
(***************************************************************************)
nns_edge_set_event_callback(t) ==
  LET n == ThreadNode(t) IN
  /\ InBody(t, "set_event_callback")
  /\ IF ~NNS_EDGE_MAGIC_IS_VALID(n) THEN InvalidHandle(t)
     ELSE \E r \in CallbackReturns(n) :
          /\ eh' = IF r = "NONE" THEN [eh EXCEPT ![n].event_cb = (loc[t].arg = 1)] ELSE eh
          /\ nns_edge_unlock(n)
          /\ Finish(t, r)
          /\ UNCHANGED <<conn_table, conns, links, backlog, alloc, crashed, ub, cmdrx>>

(***************************************************************************)
(* nns_edge_disconnect: g_hash_table_remove_all                             *)
(***************************************************************************)
JoinChoices(S) == IF \E c \in S : NeedsJoin(conns, c) THEN JoinOutcomes ELSE {"EINVAL"}

nns_edge_disconnect(t) ==
  LET n == ThreadNode(t)
      S == TableConns(n)
      W == _nns_edge_remove_conn(n, S)
  IN
  /\ InBody(t, "disconnect")
  /\ IF ~NNS_EDGE_MAGIC_IS_VALID(n) THEN InvalidHandle(t)
     ELSE \E j \in JoinChoices(S) :
          IF j = "abort"
          THEN /\ Crash(n)
               /\ ub' = ub \cup {"join-detached"}
               /\ UNCHANGED <<eh, lock, conn_table, conns, backlog, pc, loc, ret, alloc, cmdrx>>
          ELSE /\ conn_table' = [conn_table EXCEPT ![n] = EmptyTable]
               /\ conns' = W.conns
               /\ links' = W.links
               /\ ub' = IF \E c \in S : NeedsJoin(conns, c) THEN ub \cup {"join-detached"} ELSE ub
               /\ nns_edge_unlock(n)
               /\ Finish(t, "NONE")
               /\ UNCHANGED <<eh, backlog, alloc, crashed, cmdrx>>

(***************************************************************************)
(* nns_edge_release_handle: the body under the lock, then the destruction  *)
(* of the lock, then the release of the memory.                            *)
(***************************************************************************)
nns_edge_release_handle(t) ==
  LET n == ThreadNode(t)
      S == TableConns(n)
      W == _nns_edge_remove_conn(n, S)
  IN
  /\ InBody(t, "release")
  /\ IF ~NNS_EDGE_MAGIC_IS_VALID(n) THEN InvalidHandle(t)
     ELSE \E j \in JoinChoices(S) :
          IF j = "abort"
          THEN /\ Crash(n)
               /\ ub' = ub \cup {"join-detached"}
               /\ UNCHANGED <<eh, lock, conn_table, conns, backlog, pc, loc, ret, alloc, cmdrx>>
          ELSE /\ eh' = [eh EXCEPT ![n].magic = "DEAD", ![n].event_cb = FALSE]
               /\ conn_table' = [conn_table EXCEPT ![n] = EmptyTable]
               /\ conns' = W.conns
               /\ links' = W.links
               /\ ub' = IF \E c \in S : NeedsJoin(conns, c) THEN ub \cup {"join-detached"} ELSE ub
               /\ nns_edge_unlock(n)
               /\ pc' = [pc EXCEPT ![t] = "lock_destroy"]
               /\ UNCHANGED <<backlog, loc, ret, alloc, crashed, cmdrx>>

\* nns_edge_lock_destroy: destroying a mutex another thread holds is undefined
nns_edge_lock_destroy(t) ==
  LET n == ThreadNode(t) IN
  /\ pc[t] = "lock_destroy" /\ Live(t)
  /\ ub' = IF lock[n] # "free" THEN ub \cup {"destroy-locked-mutex"} ELSE ub
  /\ lock' = [lock EXCEPT ![n] = "destroyed"]
  /\ pc' = [pc EXCEPT ![t] = "free"]
  /\ UNCHANGED <<eh, conn_table, conns, links, backlog, loc, ret, alloc, crashed, cmdrx>>

\* g_free (eh) and the return of release
ReleaseFree(t) ==
  LET n == ThreadNode(t) IN
  /\ pc[t] = "free" /\ Live(t)
  /\ eh' = [eh EXCEPT ![n].mem = "freed"]
  /\ Finish(t, "NONE")
  /\ UNCHANGED <<lock, conn_table, conns, links, backlog, alloc, crashed, ub, cmdrx>>

(***************************************************************************)
(* _nns_edge_cmd_send seen from its caller: the status for a Connection    *)
(* and the outcome of the socket writes.                                    *)
(***************************************************************************)
_nns_edge_cmd_send(c, ok) ==
  IF c = NULL THEN "INVALID_PARAMETER" ELSE IF ok THEN "NONE" ELSE "IO"

\* nns_edge_data_get_info (data_h, "client_id", &val)
nns_edge_data_get_info(d) ==
  IF d.has_id THEN [ret |-> "NONE", val |-> d.id_val]
  ELSE [ret |-> "INVALID_PARAMETER", val |-> <<>>]

\* reading conn_data->sink_conn through a NULL conn_data is undefined: the
\* process takes SIGSEGV, or the load at the small address yields zero
NullDerefOutcomes == {"SIGSEGV", "zero"}

\* send of one frame on an existing Connection, with the status returned
SendAndReturn(t, c, f) ==
  \E ok \in SendOutcomes(c) :
    /\ links' = IF ok THEN LinkSend(links, c, f) ELSE links
    /\ alloc' = CountFault(c, ok)
    /\ nns_edge_unlock(ThreadNode(t))
    /\ FinishSent(t, _nns_edge_cmd_send(c, ok), 1, f.client_id)
    /\ UNCHANGED <<eh, conn_table, conns, backlog, crashed, ub, cmdrx>>

\* an error return that keeps the lock
ReturnUnsent_Locked(t, status, id) ==
  /\ FinishSent(t, status, 0, id)
  /\ UNCHANGED <<eh, lock, conn_table, conns, links, backlog, alloc, crashed, ub, cmdrx>>

ReturnUnsent(t, status, id) ==
  /\ nns_edge_unlock(ThreadNode(t))
  /\ FinishSent(t, status, 0, id)
  /\ UNCHANGED <<eh, conn_table, conns, links, backlog, alloc, crashed, ub, cmdrx>>

(***************************************************************************)
(* nns_edge_request                                                         *)
(***************************************************************************)
RequestSinkConn(n) ==
  EntryAt(n, _nns_edge_get_conn(n, eh[n].client_id)).sink_conn

\* a liveness test that only looks for the Connection
RequestAlive_ConnOnly(n) == RequestSinkConn(n) # NULL

RequestAlive(n) == _nns_edge_check_connection(RequestSinkConn(n))

nns_edge_request(t) ==
  LET n == ThreadNode(t)
      conn_data == _nns_edge_get_conn(n, eh[n].client_id)
  IN
  /\ InBody(t, "request")
  /\ IF ~NNS_EDGE_MAGIC_IS_VALID(n) THEN InvalidHandle(t)
     ELSE IF conn_data = NULL
     THEN \E o \in NullDerefOutcomes :
            IF o = "SIGSEGV"
            THEN /\ Crash(n)
                 /\ ub' = ub \cup {"request-null-conn-data"}
                 /\ pc' = [pc EXCEPT ![t] = "SIGSEGV"]
                 /\ UNCHANGED <<eh, lock, conn_table, conns, backlog, loc, ret, alloc, cmdrx>>
            ELSE /\ ub' = ub \cup {"request-null-conn-data"}
                 /\ nns_edge_unlock(n)
                 /\ FinishSent(t, "CONNECTION_FAILURE", 0, eh[n].client_id)
                 /\ UNCHANGED <<eh, conn_table, conns, links, backlog, alloc, crashed, cmdrx>>
     ELSE IF ~RequestAlive(n)
     THEN ReturnUnsent(t, "CONNECTION_FAILURE", eh[n].client_id)
     ELSE SendAndReturn(t, RequestSinkConn(n),
                        Frame("TRANSFER_DATA", eh[n].client_id, loc[t].data.bufs))

(***************************************************************************)
(* nns_edge_respond                                                         *)
(***************************************************************************)
\* a route that answers on the Connection the data came in on
RespondSinkConn_Src(n, client_id) ==
  EntryAt(n, _nns_edge_get_conn(n, client_id)).src_conn

\* conn_data->sink_conn of the entry the identifier selects
RespondSinkConn(n, client_id) ==
  EntryAt(n, _nns_edge_get_conn(n, client_id)).sink_conn

nns_edge_respond(t) ==
  LET n == ThreadNode(t)
      info == nns_edge_data_get_info(loc[t].data)
      client_id == g_ascii_strtoll(info.val)
      conn_data == _nns_edge_get_conn(n, client_id)
  IN
  /\ InBody(t, "respond")
  /\ IF ~NNS_EDGE_MAGIC_IS_VALID(n) THEN InvalidHandle(t)
     ELSE IF info.ret # "NONE" THEN ReturnUnsent(t, "INVALID_PARAMETER", NULL)
     ELSE IF conn_data = NULL THEN ReturnUnsent(t, "INVALID_PARAMETER", client_id)
     ELSE IF RespondSinkConn(n, client_id) = NULL
     THEN ReturnUnsent(t, _nns_edge_cmd_send(NULL, TRUE), client_id)
     ELSE SendAndReturn(t, RespondSinkConn(n, client_id),
                        Frame("TRANSFER_DATA", client_id, loc[t].data.bufs))

(***************************************************************************)
(* _nns_edge_tcp_connect, run by nns_edge_connect under the handle lock    *)
(* and by the accept continuation (the reverse dial) without it.           *)
(***************************************************************************)
ListenerAt(port) ==
  {m \in Node : eh[m].listener /\ eh[m].lport = port /\ ~crashed[m]}

\* _nns_edge_connect_socket: the outcomes of g_socket_connect
ConnectOutcomes(port) ==
  IF ListenerAt(port) = {} THEN {FALSE}
  ELSE {TRUE} \cup (IF alloc.faults < MaxFault THEN {FALSE} ELSE {})

NewConn(n, l, side) ==
  [ConnInit EXCEPT !.st = "live", !.node = n, !.link = l, !.side = side,
                   !.socket = (l # NULL), !.cancellable = TRUE]

NewLink(n, m) ==
  [LinkInit EXCEPT !.st = "open", !.d_node = n, !.a_node = m,
                   !.d_open = TRUE, !.a_open = TRUE]

\* what a finished accept continuation or a finished call leaves in pc, ret, loc
\* and in the handle lock; the continuation re-arms the listener
Leave(t, status, sent, E) ==
  LET n == ThreadNode(t) IN
  /\ pc' = [pc EXCEPT ![t] = "idle"]
  /\ loc' = [loc EXCEPT ![t] = LocInit]
  /\ IF t \in AppThread
     THEN /\ ret' = [ret EXCEPT ![t] = [op |-> loc[t].op, status |-> status, sent |-> sent,
                                         cb |-> loc[t].cb, id |-> loc[t].client_id, conn |-> loc[t].conn,
                                         bufs |-> loc[t].data.bufs]]
          /\ nns_edge_unlock(n)
          /\ eh' = E
     ELSE /\ ret' = [ret EXCEPT ![t] = [op |-> "accept", status |-> status, sent |-> sent,
                                         cb |-> loc[t].cb, id |-> loc[t].client_id, conn |-> loc[t].conn,
                                         bufs |-> loc[t].data.bufs]]
          /\ UNCHANGED lock
          /\ eh' = [E EXCEPT ![n].armed = TRUE]

\* the dial of _nns_edge_tcp_connect: a Connection is allocated and its socket
\* is connected to the listener at the port (C, L: the heap and the links the
\* caller has reached)
DialOutcomes(has_ip, port) == IF has_ip THEN ConnectOutcomes(port) ELSE {FALSE}

Dial(t, has_ip, port, E, sent, C, L) ==
  LET n == ThreadNode(t)
      c == alloc.conn
      l == alloc.link
  IN
  /\ alloc.conn <= MaxConn /\ alloc.link <= MaxLink
  /\ \E ok \in DialOutcomes(has_ip, port) :
    IF ok
    THEN \E m \in ListenerAt(port) :
         /\ conns' = [C EXCEPT ![c] = NewConn(n, l, "d")]
         /\ links' = [L EXCEPT ![l] = NewLink(n, m)]
         /\ backlog' = [backlog EXCEPT ![m] = Append(@, l)]
         /\ alloc' = [alloc EXCEPT !.conn = @ + 1, !.link = @ + 1]
         /\ pc' = [pc EXCEPT ![t] = "tcp_recv"]
         \* conn of the calling accept_socket_async_cb stays in its frame
         /\ loc' = [loc EXCEPT ![t] = [@ EXCEPT !.conn = c, !.sent = sent,
                                               !.inbound = IF loc[t].dir = "src"
                                                           THEN loc[t].conn ELSE NULL]]
         /\ eh' = E
         /\ UNCHANGED <<lock, ret>>
    ELSE \* error: _nns_edge_close_connection (conn), CONNECTION_FAILURE
         /\ conns' = [C EXCEPT ![c] = [NewConn(n, NULL, "d") EXCEPT !.st = "freed",
                                                                   !.cancellable = FALSE]]
         /\ links' = L
         /\ alloc' = [alloc EXCEPT !.conn = @ + 1, !.iofail = TRUE,
                                   !.faults = IF has_ip /\ ListenerAt(port) # {}
                                              THEN @ + 1 ELSE @]
         /\ Leave(t, "CONNECTION_FAILURE", sent, E)
         /\ UNCHANGED backlog

nns_edge_connect(t) ==
  LET n == ThreadNode(t) IN
  /\ InBody(t, "connect")
  /\ IF ~NNS_EDGE_MAGIC_IS_VALID(n) THEN InvalidHandle(t)
     ELSE IF ~eh[n].event_cb THEN ReturnUnsent(t, "CONNECTION_FAILURE", loc[t].client_id)
     ELSE /\ Dial(t, loc[t].has_ip, loc[t].port, [eh EXCEPT ![n].is_server = FALSE], 0,
                  conns, links)
          /\ UNCHANGED <<conn_table, crashed, ub, cmdrx>>

\* the process aborts inside pthread_join
CrashNow(n) ==
  /\ Crash(n)
  /\ ub' = ub \cup {"join-detached"}
  /\ UNCHANGED <<eh, lock, conn_table, conns, backlog, pc, loc, ret, alloc, cmdrx>>

JoinUB(S) == IF \E c \in S : NeedsJoin(conns, c) THEN ub \cup {"join-detached"} ELSE ub

\* a handshake step of a thread of a live process on a handle not yet freed
InStep(t, p) == pc[t] = p /\ Live(t) /\ eh[ThreadNode(t)].mem = "live"

\* the error exit of a handshake: the Connection being built is closed
HandshakeFail(t, L, A, E, sent) ==
  LET n == ThreadNode(t)
      c == loc[t].conn
  IN
  \E j \in JoinChoices({c}) :
    IF j = "abort" THEN CrashNow(n)
    ELSE /\ conns' = _nns_edge_close_connection(conns, c)
         /\ links' = LinkClose(L, conns, c)
         /\ alloc' = A
         /\ ub' = JoinUB({c})
         /\ Leave(t, "CONNECTION_FAILURE", sent, E)
         /\ UNCHANGED <<conn_table, backlog, crashed, cmdrx>>

\* the rest of _nns_edge_tcp_connect up to the reply: the capability frame is
\* received, the callback is asked, HOST_INFO or ERROR is sent
TcpConnectReceive(t) ==
  LET n == ThreadNode(t)
      c == loc[t].conn
      f == Head(InQ(c))
  IN
  /\ InStep(t, "tcp_recv")
  /\ \E ok \in RecvOutcomes(c) :
     IF ~ok
     THEN HandshakeFail(t, links, [CountFault(c, ok) EXCEPT !.iofail = TRUE], eh, loc[t].sent)
     ELSE IF f.cmd # "CAPABILITY"
     THEN HandshakeFail(t, LinkRecv(links, c), alloc, eh, loc[t].sent)
     ELSE \E r \in CallbackReturns(n), sok \in SendOutcomes(c) :
          LET E == [eh EXCEPT ![n].client_id = f.client_id]
              host == _get_host_str(eh[n].recv_ip, eh[n].recv_port)
              cmd == IF r # "NONE" THEN _nns_edge_cmd_init("ERROR", f.client_id)
                     ELSE Frame("HOST_INFO", f.client_id, <<host>>)
          IN
          IF ~sok
          THEN HandshakeFail(t, LinkRecv(links, c),
                             [CountFault(c, sok) EXCEPT !.iofail = TRUE], E, loc[t].sent + 1)
          ELSE /\ links' = LinkSend(LinkRecv(links, c), c, cmd)
               /\ eh' = E
               /\ pc' = [pc EXCEPT ![t] = "add_lookup"]
               /\ loc' = [loc EXCEPT ![t] = [@ EXCEPT !.client_id = f.client_id,
                                                     !.dir = "sink", !.cb = r,
                                                     !.sent = @ + 1]]
               /\ UNCHANGED <<lock, conn_table, conns, backlog, ret, alloc, crashed, ub, cmdrx>>

(***************************************************************************)
(* _nns_edge_add_conn and the registration that follows it, as the hash    *)
(* table calls they make: the lookup, the insertion of a new value, and    *)
(* the close of the old Connection with the store of the new one.          *)
(***************************************************************************)
NewEntry(id, addr) == [id |-> id, src_conn |-> NULL, sink_conn |-> NULL, addr |-> addr]

\* g_hash_table_lookup in _nns_edge_add_conn; NULL from an invalid handle
AddConnLookup(t) ==
  LET n == ThreadNode(t)
      data == g_hash_table_lookup(n, GUINT_TO_POINTER(loc[t].client_id))
  IN
  /\ InStep(t, "add_lookup")
  /\ IF ~NNS_EDGE_MAGIC_IS_VALID(n)
     THEN HandshakeFail(t, links, alloc, eh, loc[t].sent)
     ELSE /\ pc' = [pc EXCEPT ![t] = IF data = NULL THEN "add_insert" ELSE "add_set"]
          /\ loc' = [loc EXCEPT ![t].cdata = data]
          /\ UNCHANGED <<eh, lock, conn_table, conns, links, backlog, ret, alloc,
                         crashed, ub, cmdrx>>

\* malloc, memset, g_hash_table_insert: a value stored under the key in the
\* meantime is replaced and destroyed by _nns_edge_remove_conn
AddConnInsert(t) ==
  LET n == ThreadNode(t)
      key == GUINT_TO_POINTER(loc[t].client_id)
      tbl == conn_table[n]
      S == IF key \in DOMAIN tbl THEN {tbl[key].src_conn, tbl[key].sink_conn} \ {NULL}
           ELSE {}
      W == _nns_edge_remove_conn(n, S)
  IN
  /\ InStep(t, "add_insert")
  /\ alloc.entry <= MaxEntry
  /\ \/ \* malloc of the nns_edge_conn_data_s returns NULL
        /\ alloc.faults < MaxFault
        /\ HandshakeFail(t, links, [alloc EXCEPT !.faults = @ + 1, !.iofail = TRUE],
                         eh, loc[t].sent)
     \/ \E j \in JoinChoices(S) :
          IF j = "abort" THEN CrashNow(n)
          ELSE /\ conn_table' = [conn_table EXCEPT
                                   ![n] = TablePut(tbl, key, NewEntry(loc[t].client_id, alloc.entry))]
               /\ conns' = W.conns
               /\ links' = W.links
               /\ ub' = JoinUB(S)
               /\ alloc' = [alloc EXCEPT !.entry = @ + 1]
               /\ loc' = [loc EXCEPT ![t].cdata = alloc.entry]
               /\ pc' = [pc EXCEPT ![t] = "add_set"]
               /\ UNCHANGED <<eh, lock, backlog, ret, crashed, cmdrx>>

\* a close that comes after the store: it closes what the field holds then
OldConn_AfterStore(e, dir, new) == new

\* the Connection closed by "Close old connection and set new one": the one
\* the field of the entry holds before the new one is stored
OldConn(e, dir, new) == IF dir = "src" THEN e.src_conn ELSE e.sink_conn

\* "Close old connection and set new one", then the rest of the caller: the
\* return of _nns_edge_tcp_connect, or for an accepted socket the reverse
\* dial of a server and the re-arming of the listener
RegisterConn(t) ==
  LET n == ThreadNode(t)
      a == loc[t].cdata
      e == EntryAt(n, a)
      old == OldConn(e, loc[t].dir, loc[t].conn)
      T == [conn_table EXCEPT
              ![n][EntryKey(n, a)] = IF loc[t].dir = "src"
                                     THEN [e EXCEPT !.src_conn = loc[t].conn]
                                     ELSE [e EXCEPT !.sink_conn = loc[t].conn]]
      C == _nns_edge_close_connection(conns, old)
      L == LinkClose(links, conns, old)
  IN
  /\ InStep(t, "add_set")
  /\ IF ~EntryLive(n, a)
     THEN \* the nns_edge_conn_data_s was removed and freed after the lookup
          /\ ub' = ub \cup {"conn-data-use-after-free"}
          /\ pc' = [pc EXCEPT ![t] = "undefined"]
          /\ UNCHANGED <<eh, lock, conn_table, conns, links, backlog, loc, ret, alloc,
                         crashed, cmdrx>>
     ELSE \E j \in JoinChoices({old}) :
          IF j = "abort" THEN CrashNow(n)
          ELSE /\ conn_table' = T
               /\ ub' = JoinUB({old})
               /\ IF loc[t].dir = "src" /\ eh[n].is_server
                  THEN Dial(t, loc[t].has_ip, loc[t].port, eh, loc[t].sent, C, L)
                  ELSE /\ conns' = C
                       /\ links' = L
                       /\ Leave(t, "NONE", loc[t].sent, eh)
                       /\ UNCHANGED <<backlog, alloc>>
               /\ UNCHANGED <<crashed, cmdrx>>

(***************************************************************************)
(* accept_socket_async_cb, on the main loop of the node, without the lock. *)
(***************************************************************************)
\* g_get_monotonic_time
g_get_monotonic_time == alloc.time + 1

\* the socket is taken from the listener, the Connection is built and the
\* CAPABILITY frame is sent
AcceptSocket(m) ==
  LET n == ThreadNode(m)
      c == alloc.conn
      l == Head(backlog[n])
      client_id == IF eh[n].is_server THEN g_get_monotonic_time ELSE eh[n].client_id
      A == [alloc EXCEPT !.conn = @ + 1,
                         !.time = IF eh[n].is_server THEN @ + 1 ELSE @]
      C == [conns EXCEPT ![c] = [NewConn(n, l, "a") EXCEPT !.socket = links[l].a_open]]
      closed == [conns EXCEPT ![c] = [NewConn(n, l, "a") EXCEPT
                                        !.st = "freed", !.socket = FALSE,
                                        !.cancellable = FALSE]]
      cmd == Frame("CAPABILITY", client_id, <<eh[n].caps_str>>)
  IN
  /\ InStep(m, "idle")
  /\ eh[n].armed /\ Len(backlog[n]) > 0
  /\ alloc.conn <= MaxConn
  /\ eh[n].is_server => alloc.time < MaxTime
  /\ backlog' = [backlog EXCEPT ![n] = Tail(@)]
  /\ IF eh[n].caps_null
     THEN \* strlen (eh->caps_str) of a NULL string is undefined
          \E o \in NullDerefOutcomes :
            IF o = "SIGSEGV"
            THEN /\ crashed' = [crashed EXCEPT ![n] = TRUE]
                 /\ links' = [KillLinks(n) EXCEPT ![l].a_open = FALSE]
                 /\ ub' = ub \cup {"strlen-null-caps"}
                 /\ UNCHANGED <<eh, lock, conn_table, conns, pc, loc, ret, alloc, cmdrx>>
            ELSE \* the send of the NULL buffer fails, the Connection is closed
                 /\ ub' = ub \cup {"strlen-null-caps"}
                 /\ conns' = closed
                 /\ links' = LinkClose(links, C, c)
                 /\ alloc' = [A EXCEPT !.iofail = TRUE]
                 /\ Leave(m, "CONNECTION_FAILURE", 1, [eh EXCEPT ![n].armed = FALSE])
                 /\ UNCHANGED <<conn_table, crashed, cmdrx>>
     ELSE \E ok \in (IF links[l].d_open /\ alloc.faults >= MaxFault THEN {TRUE}
                     ELSE {TRUE, FALSE}) :
          IF ok
          THEN /\ conns' = C
               /\ links' = IF links[l].d_open THEN [links EXCEPT ![l].a2d = Append(@, cmd)]
                           ELSE links
               /\ alloc' = A
               /\ eh' = [eh EXCEPT ![n].armed = FALSE]
               /\ pc' = [pc EXCEPT ![m] = "acc_recv"]
               /\ loc' = [loc EXCEPT ![m] = [LocInit EXCEPT !.op = "accept", !.conn = c,
                                                             !.client_id = client_id,
                                                             !.sent = 1]]
               /\ UNCHANGED <<lock, conn_table, ret, crashed, ub, cmdrx>>
          ELSE /\ conns' = closed
               /\ links' = LinkClose(links, C, c)
               /\ alloc' = [A EXCEPT !.iofail = TRUE,
                                     !.faults = IF links[l].d_open THEN @ + 1 ELSE @]
               /\ Leave(m, "CONNECTION_FAILURE", 1, [eh EXCEPT ![n].armed = FALSE])
               /\ UNCHANGED <<conn_table, crashed, ub, cmdrx>>

\* what the start of the receiver thread can meet: the thread runs, malloc
\* of the thread data returns NULL, or pthread_create fails with an error
\* number (EAGAIN)
SpawnOutcomes ==
  {"created"} \cup (IF alloc.faults < MaxFault THEN {"ENOMEM", "EAGAIN"} ELSE {})

\* _nns_edge_create_message_thread: the status it returns.  pthread_create
\* reports a failure by a positive error number, so the test tid < 0 never
\* holds and a failed pthread_create is reported as success with
\* conn->running left at 1
_nns_edge_create_message_thread(spawn) ==
  IF spawn = "ENOMEM" THEN "OUT_OF_MEMORY" ELSE "NONE"

\* an accepting side that goes on after any reply
AcceptedReply_Any(f) == TRUE

\* the test of the reply: cmd.info.cmd != _NNS_EDGE_CMD_HOST_INFO is an error
AcceptedReply(f) == f.cmd = "HOST_INFO"

\* the reply is received; HOST_INFO is parsed, the receiver thread is created
\* (_nns_edge_create_message_thread) and the registration starts
AcceptReceive(m) ==
  LET n == ThreadNode(m)
      c == loc[m].conn
      f == Head(InQ(c))
      \* cmd.mem[0] of a reply without buffers still points at the capability
      \* string of the frame sent before
      mem0 == IF f.num > 0 THEN f.mem[1] ELSE eh[n].caps_str
      host == _parse_host_str(mem0, <<>>, 0)
  IN
  /\ InStep(m, "acc_recv")
  /\ \E ok \in RecvOutcomes(c) :
     IF ~ok
     THEN HandshakeFail(m, links, [CountFault(c, ok) EXCEPT !.iofail = TRUE], eh, loc[m].sent)
     ELSE IF ~AcceptedReply(f)
     THEN HandshakeFail(m, LinkRecv(links, c), alloc, eh, loc[m].sent)
     ELSE \E spawn \in SpawnOutcomes :
          IF _nns_edge_create_message_thread(spawn) # "NONE"
          THEN HandshakeFail(m, LinkRecv(links, c),
                             [alloc EXCEPT !.faults = @ + 1, !.iofail = TRUE], eh, loc[m].sent)
          ELSE /\ links' = LinkRecv(links, c)
               /\ conns' = [conns EXCEPT
                              ![c].running = 1,
                              ![c].thread = IF spawn = "created" THEN "top" ELSE "nospawn",
                              ![c].tcid = IF spawn = "created" THEN loc[m].client_id ELSE @]
               /\ loc' = [loc EXCEPT ![m] = [@ EXCEPT !.dir = "src", !.ip = host.ip,
                                                      !.port = host.port,
                                                      !.has_ip = (LastColon(mem0, Len(mem0)) # 0)]]
               /\ pc' = [pc EXCEPT ![m] = "add_lookup"]
               /\ alloc' = IF spawn = "created" THEN alloc
                           ELSE [alloc EXCEPT !.faults = @ + 1, !.iofail = TRUE]
               /\ UNCHANGED <<eh, lock, conn_table, backlog, ret, crashed, ub, cmdrx>>

(***************************************************************************)
(* _message_handler: the receiver thread of an accepted Connection.        *)
(* "top" is the loop condition with the checks before the receive, "recv"  *)
(* the blocking _nns_edge_cmd_receive with the handling of the frame.      *)
(***************************************************************************)
\* the data handle the receiver builds: "client_id" is the identifier of the
\* thread data printed with %ld, the buffers are cmd.mem[0 .. num-1]
NewData(c, f) ==
  EdgeData(TRUE, [i \in 1..f.num |-> f.mem[i]], TRUE, FormatLong(conns[c].tcid))

\* _nns_edge_invoke_event_cb: the events the application's callback has been
\* given (E), with one more when a callback is registered
_nns_edge_invoke_event_cb(n, E, event, data) ==
  IF eh[n].event_cb THEN Append(E, [event |-> event, data |-> data]) ELSE E

\* a loop that ends when the callback returns an error
AfterCallback_Break(r) == IF r = "NONE" THEN "top" ELSE "exited"

\* what the loop does with the status of the NEW_DATA_RECEIVED callback: a
\* warning is logged and the loop goes on to its next turn
AfterCallback(r) == "top"

ThreadRuns(c) ==
  /\ conns[c].st # "free"
  /\ ~crashed[conns[c].node]

\* an exit that shuts every Connection of the node down
MsgExit_StopAll(c) ==
  conns' = [d \in ConnId |->
              IF d = c THEN [conns[d] EXCEPT !.running = 0, !.thread = "exited"]
              ELSE IF conns[d].node = conns[c].node
              THEN [conns[d] EXCEPT !.running = 0, !.socket = FALSE]
              ELSE conns[d]]

MsgExit(c) == conns' = [conns EXCEPT ![c].running = 0, ![c].thread = "exited"]

MessageHandlerTop(c) ==
  LET n == conns[c].node IN
  /\ ThreadRuns(c) /\ conns[c].thread = "top"
  /\ IF conns[c].st = "freed"
     THEN \* conn->running of a freed Connection
          /\ ub' = ub \cup {"conn-read-by-receiver"}
          /\ conns' = [conns EXCEPT ![c].thread = "undefined"]
     ELSE IF conns[c].running = 0
     THEN MsgExit(c) /\ UNCHANGED ub
     ELSE IF eh[n].mem = "freed"
     THEN \* eh->magic of a freed handle
          /\ ub' = ub \cup {"handle-read-by-receiver"}
          /\ conns' = [conns EXCEPT ![c].thread = "undefined"]
     ELSE IF ~NNS_EDGE_MAGIC_IS_VALID(n) \/ ~_nns_edge_check_connection(c)
     THEN MsgExit(c) /\ UNCHANGED ub
     ELSE /\ conns' = [conns EXCEPT ![c].thread = "recv"]
          /\ UNCHANGED ub
  /\ UNCHANGED <<eh, lock, conn_table, links, backlog, pc, loc, ret, alloc, crashed, cmdrx>>

\* a loop that hands every frame but ERROR to the callback
FrameVerdict_DeliverAll(f) == IF f.cmd = "ERROR" THEN "break" ELSE "deliver"

\* what the loop does with a received command: ERROR ends it, a command
\* other than TRANSFER_DATA is cleared and the loop continues
FrameVerdict(f) ==
  IF f.cmd = "ERROR" THEN "break"
  ELSE IF f.cmd # "TRANSFER_DATA" THEN "continue" ELSE "deliver"

MessageHandlerReceive(c) ==
  LET n == conns[c].node
      f == Head(InQ(c))
  IN
  /\ ThreadRuns(c) /\ conns[c].thread = "recv"
  /\ IF conns[c].st = "freed"
     THEN \* conn->socket and conn->cancellable of a freed Connection
          /\ ub' = ub \cup {"conn-read-by-receiver"}
          /\ conns' = [conns EXCEPT ![c].thread = "undefined"]
          /\ UNCHANGED links
     ELSE \E ok \in RecvOutcomes(c) :
          IF ~ok
          THEN MsgExit(c) /\ UNCHANGED <<links, ub>>
          ELSE IF FrameVerdict(f) = "break"
          THEN MsgExit(c) /\ links' = LinkRecv(links, c) /\ UNCHANGED ub
          ELSE IF FrameVerdict(f) = "continue"
          THEN /\ conns' = [conns EXCEPT ![c].thread = "top"]
               /\ links' = LinkRecv(links, c)
               /\ UNCHANGED ub
          ELSE IF eh[n].mem = "freed"
          THEN \* eh->event_cb of a freed handle
               /\ ub' = ub \cup {"handle-read-by-receiver"}
               /\ conns' = [conns EXCEPT ![c].thread = "undefined"]
               /\ links' = LinkRecv(links, c)
          ELSE \E r \in CallbackReturns(n) :
               /\ conns' = [conns EXCEPT ![c].thread = AfterCallback(r),
                                         ![c].events = _nns_edge_invoke_event_cb(
                                            n, @, "NEW_DATA_RECEIVED", NewData(c, f)),
                                         ![c].cbret = Append(@, r)]
               /\ links' = LinkRecv(links, c)
               /\ UNCHANGED ub
  /\ UNCHANGED <<eh, lock, conn_table, backlog, pc, loc, ret, alloc, crashed, cmdrx>>

(***************************************************************************)
(* _nns_edge_cmd_receive on bytes a peer chose.  cmd->mem has                *)
(* NNS_EDGE_DATA_LIMIT slots and info.mem_size as many; the loop runs to   *)
(* info.num as received.  "slots" counts the slots mem[0..slots-1] the run *)
(* has written.  A write of mem[n] with n at or beyond the limit lands     *)
(* outside the array: the run goes on over the caller's memory, or the     *)
(* process is killed (OverflowOutcomes).                                   *)
(***************************************************************************)
OverflowOutcomes == {"continue", "killed"}

\* the caller hands in a command it has zeroed
CmdReceiveCall ==
  /\ cmdrx.st \in {"off", "done"}
  /\ cmdrx' = [CmdRxInit EXCEPT !.st = "header"]
  /\ UNCHANGED <<eh, lock, conn_table, conns, links, backlog, pc, loc, ret, alloc, crashed, ub>>

\* _receive_raw_data of the header: info.num is whatever the peer wrote
CmdReceiveHeader ==
  /\ cmdrx.st = "header"
  /\ \E ok \in BOOLEAN, num \in 0..MaxHdrNum :
       cmdrx' = IF ok THEN [cmdrx EXCEPT !.st = "loop", !.num = num]
                ELSE [cmdrx EXCEPT !.st = "done", !.ret = "IO"]
  /\ UNCHANGED <<eh, lock, conn_table, conns, links, backlog, pc, loc, ret, alloc, crashed, ub>>

\* one turn of the loop: malloc into mem[n], then the read of the buffer; on
\* failure the slots below n are freed and cleared, n having been advanced
\* by the log statement of the failed read
CmdReceiveBuffer ==
  LET n == cmdrx.n IN
  /\ cmdrx.st = "loop"
  /\ IF n >= cmdrx.num
     THEN cmdrx' = [cmdrx EXCEPT !.st = "done", !.ret = "NONE"] /\ UNCHANGED ub
     ELSE \E o \in (IF n >= NNS_EDGE_DATA_LIMIT THEN OverflowOutcomes ELSE {"continue"}),
             malloc_ok \in BOOLEAN, read_ok \in BOOLEAN :
            /\ ub' = IF n >= NNS_EDGE_DATA_LIMIT THEN ub \cup {"cmd-mem-overflow"} ELSE ub
            /\ cmdrx' =
                 IF o = "killed"
                 THEN [cmdrx EXCEPT !.st = "done", !.ret = "killed", !.slots = n + 1]
                 ELSE IF ~malloc_ok
                 THEN [cmdrx EXCEPT !.st = "done", !.ret = "OUT_OF_MEMORY",
                                    !.slots = n + 1, !.held = 0]
                 ELSE IF ~read_ok
                 THEN [cmdrx EXCEPT !.st = "done", !.ret = "IO", !.n = n + 1,
                                    !.slots = n + 1, !.held = 0]
                 ELSE [cmdrx EXCEPT !.n = n + 1, !.slots = n + 1, !.held = n + 1]
  /\ UNCHANGED <<eh, lock, conn_table, conns, links, backlog, pc, loc, ret, alloc, crashed>>

NextCodec == CmdReceiveCall \/ CmdReceiveHeader \/ CmdReceiveBuffer

SpecCodec == Init /\ [][NextCodec]_vars

(***************************************************************************)
(* The life of one handle: two application threads of node A issue every   *)
(* public call, release included, from the state after construction.       *)
(***************************************************************************)
HandleThread == {"tA", "uA"}

HandleCall(t) ==
  \/ \E is_server \in BOOLEAN : CallStart(t, is_server)
  \/ \E key \in {"CAPS", "IP", "PORT", "TOPIC", "NAME"} :
       CallSetInfo(t, key, IF key = "PORT" THEN <<"7">> ELSE <<"c">>)
  \/ \E cb \in BOOLEAN : CallSetEventCallback(t, cb)
  \/ CallConnect(t, AvailablePort("B"))
  \/ CallDisconnect(t)
  \/ \E d \in RequestInputs : CallRequest(t, d)
  \/ \E d \in RespondInputs : CallRespond(t, d)
  \/ CallRelease(t)

PublicCall(t) ==
  \/ nns_edge_lock(t)
  \/ ReadFreedHandle(t)
  \/ nns_edge_start(t)
  \/ nns_edge_set_info(t)
  \/ nns_edge_set_event_callback(t)
  \/ nns_edge_connect(t)
  \/ nns_edge_disconnect(t)
  \/ nns_edge_request(t)
  \/ nns_edge_respond(t)
  \/ nns_edge_release_handle(t)
  \/ nns_edge_lock_destroy(t)
  \/ ReleaseFree(t)

NextHandle == \E t \in HandleThread : HandleCall(t) \/ PublicCall(t)

SpecHandle == Init /\ [][NextHandle]_vars

(***************************************************************************)
(* The edge transport on two nodes.  Both handles have been constructed    *)
(* and configured by set_info (CAPS), set_event_callback and start: A as   *)
(* server, B as client.  One application thread of each node then calls    *)
(* in (the client connects, requests and disconnects, the server responds) *)
(* while the main loops run the accept continuations and the receiver      *)
(* threads run.                                                            *)
(***************************************************************************)
NetThread == {"tA", "tB"}
PeerPort(t) == AvailablePort(IF ThreadNode(t) = "A" THEN "B" ELSE "A")

Started(n, is_server) ==
  [HandleInit EXCEPT
     !.is_server = is_server,
     !.event_cb = TRUE,
     !.caps_null = FALSE,
     !.caps_str = _STR_NULL(TRUE, <<>>) \o <<"c">>,
     !.caps_set = <<"c">>,
     !.recv_port = IF is_server THEN 0 ELSE AvailablePort(n),
     !.listener = TRUE,
     !.lport = AvailablePort(n),
     !.armed = TRUE]

InitStarted ==
  /\ eh = [n \in Node |-> Started(n, n = "A")]
  /\ lock = [n \in Node |-> "free"]
  /\ conn_table = [n \in Node |-> EmptyTable]
  /\ conns = [c \in ConnId |-> ConnInit]
  /\ links = [l \in LinkId |-> LinkInit]
  /\ backlog = [n \in Node |-> <<>>]
  /\ pc = [t \in Thread |-> "idle"]
  /\ loc = [t \in Thread |-> LocInit]
  /\ ret = [t \in Thread |-> RetInit]
  /\ alloc = [conn |-> 1, link |-> 1, entry |-> 1, time |-> 0, faults |-> 0,
              iofail |-> FALSE, ops |-> 0]
  /\ crashed = [n \in Node |-> FALSE]
  /\ ub = {}
  /\ cmdrx = CmdRxInit

\* the client's thread connects, requests and disconnects; the server's
\* thread responds
NetCall ==
  \/ CallConnect("tB", PeerPort("tB"))
  \/ \E d \in RequestInputs : CallRequest("tB", d)
  \/ CallDisconnect("tB")
  \/ \E d \in RespondInputs : CallRespond("tA", d)

NetStep(t) ==
  \/ nns_edge_lock(t)
  \/ nns_edge_connect(t)
  \/ nns_edge_disconnect(t)
  \/ nns_edge_request(t)
  \/ nns_edge_respond(t)

Handshake(t) ==
  \/ TcpConnectReceive(t)
  \/ AddConnLookup(t)
  \/ AddConnInsert(t)
  \/ RegisterConn(t)

AcceptStep(m) ==
  \/ AcceptSocket(m)
  \/ AcceptReceive(m)

Receiver(c) ==
  \/ MessageHandlerTop(c)
  \/ MessageHandlerReceive(c)

Next ==
  \/ NetCall
  \/ \E t \in NetThread : NetStep(t)
  \/ \E t \in NetThread \cup LoopThread : Handshake(t)
  \/ \E m \in LoopThread : AcceptStep(m)
  \/ \E c \in ConnId : Receiver(c)

Spec == InitStarted /\ [][Next]_vars

\* every receiver thread that can run is scheduled (pthread_create, 943)
ReceiverFairness == \A c \in ConnId : WF_vars(Receiver(c))

\* a step that needs no failure injected by the environment
NoNewFault == alloc'.faults = alloc.faults

\* the main loop dispatches a pending accept continuation and runs it on
LoopFairness ==
  \A m \in LoopThread : WF_vars((AcceptStep(m) \/ Handshake(m)) /\ NoNewFault)

\* a thread inside a public call runs on
CallFairness ==
  \A t \in NetThread : WF_vars((NetStep(t) \/ Handshake(t)) /\ NoNewFault)

SpecFair == Spec /\ ReceiverFairness /\ LoopFairness /\ CallFairness

\* the threads inside public calls run on; nothing is assumed of the main
\* loop of a node (a peer whose listener has the connection in its backlog
\* need not ever dispatch it)
SpecCalls == Spec /\ CallFairness

\* the main loop of the server node runs, as do the calls and the receiver
\* threads; nothing is assumed of the main loop of the client node
ServerLoopFairness == WF_vars((AcceptStep("mA") \/ Handshake("mA")) /\ NoNewFault)

SpecServer == Spec /\ ServerLoopFairness /\ CallFairness /\ ReceiverFairness

(***************************************************************************)
(* The wire.  Two threads of node A call nns_edge_request at once on the   *)
(* handle of an established duplex connection, and the receiver thread of  *)
(* node B reads what they write.  _nns_edge_cmd_send is taken write by     *)
(* write (_send_raw_data of the header, then of each buffer) and           *)
(* _nns_edge_cmd_receive read by read, so that the queue of the link holds *)
(* the pieces of frames in the order the socket got them.                  *)
(***************************************************************************)
WireThread == {"tA", "uA"}

\* the buffers handed to the two requests: sequences of different lengths
\* with contents that differ from frame to frame
WireBufSeqs == {[i \in 1..k |-> 10 * k + i] : k \in 1..(MaxBufs + 1)}

\* one _send_raw_data: the nns_edge_cmd_info_s of a frame (own, bufs: the
\* call that wrote it and the data it was given), or one buffer
HeaderPiece(t, cmd, cid, bufs) ==
  [kind |-> "info", cmd |-> cmd, client_id |-> cid, num |-> Len(bufs), mem |-> 0,
   own |-> t, bufs |-> bufs]

BufferPiece(t, b) ==
  [kind |-> "mem", cmd |-> "-", client_id |-> 0, num |-> 0, mem |-> b,
   own |-> t, bufs |-> <<>>]

\* the socket takes the piece: it is queued for the peer and kept in the
\* record of what was written on the link
WirePut(L, c, p) ==
  LET l == conns[c].link IN
  IF conns[c].side = "d"
  THEN [L EXCEPT ![l].d2a = Append(@, p), ![l].wrote = Append(@, p)]
  ELSE [L EXCEPT ![l].a2d = Append(@, p), ![l].wrote = Append(@, p)]

\* the state after B's connect and both handshakes: A holds B's Connection
\* as src_conn 2 and its own dial as sink_conn 3, B the reverse; the
\* capability frame of the reverse dial has left B's identifier in
\* eh->client_id of A
InitWire ==
  /\ eh = [n \in Node |-> [Started(n, n = "A") EXCEPT !.client_id = 1]]
  /\ lock = [n \in Node |-> "free"]
  /\ conn_table =
       [n \in Node |->
          TablePut(EmptyTable, GUINT_TO_POINTER(1),
                   IF n = "A" THEN [id |-> 1, addr |-> 2, src_conn |-> 2, sink_conn |-> 3]
                   ELSE [id |-> 1, addr |-> 1, src_conn |-> 4, sink_conn |-> 1])]
  /\ conns =
       [c \in ConnId |->
          IF c = 1 THEN NewConn("B", 1, "d")
          ELSE IF c = 2
          THEN [NewConn("A", 1, "a") EXCEPT !.running = 1, !.thread = "top", !.tcid = 1]
          ELSE IF c = 3 THEN NewConn("A", 2, "d")
          ELSE IF c = 4
          THEN [NewConn("B", 2, "a") EXCEPT !.running = 1, !.thread = "top", !.tcid = 1]
          ELSE ConnInit]
  /\ links = [l \in LinkId |->
                IF l = 1 THEN NewLink("B", "A")
                ELSE IF l = 2 THEN NewLink("A", "B") ELSE LinkInit]
  /\ backlog = [n \in Node |-> <<>>]
  /\ pc = [t \in Thread |-> "idle"]
  /\ loc = [t \in Thread |-> LocInit]
  /\ ret = [t \in Thread |->
              IF t = "tB"
              THEN [RetInit EXCEPT !.op = "connect", !.status = "NONE", !.sent = 1,
                                   !.cb = "NONE", !.id = 1, !.conn = 1]
              ELSE IF t = "mA"
              THEN [RetInit EXCEPT !.op = "accept", !.status = "NONE", !.sent = 2,
                                   !.cb = "NONE", !.id = 1, !.conn = 3]
              ELSE IF t = "mB"
              THEN [RetInit EXCEPT !.op = "accept", !.status = "NONE", !.sent = 1,
                                   !.id = 1, !.conn = 4]
              ELSE RetInit]
  /\ alloc = [conn |-> 5, link |-> 3, entry |-> 3, time |-> 1, faults |-> 0,
              iofail |-> FALSE, ops |-> 1]
  /\ crashed = [n \in Node |-> FALSE]
  /\ ub = {}
  /\ cmdrx = CmdRxInit

\* the application thread calls nns_edge_request once, with valid data
WireCallRequest(t, b) ==
  /\ pc[t] = "idle" /\ Live(t) /\ ret[t].op = "none"
  /\ pc' = [pc EXCEPT ![t] = "lock"]
  /\ loc' = [loc EXCEPT ![t] = [LocInit EXCEPT !.op = "request",
                                               !.data = EdgeData(TRUE, b, FALSE, <<>>)]]
  /\ UNCHANGED <<eh, lock, conn_table, conns, links, backlog, ret, alloc, crashed, ub, cmdrx>>

\* nns_edge_request up to the first write of _nns_edge_cmd_send: the checks,
\* the command built from the data, the nns_edge_cmd_info_s sent
WireRequestHeader(t) ==
  LET n == ThreadNode(t)
      c == RequestSinkConn(n)
      bufs == loc[t].data.bufs
  IN
  /\ InBody(t, "request")
  /\ NNS_EDGE_MAGIC_IS_VALID(n)
  /\ _nns_edge_get_conn(n, eh[n].client_id) # NULL
  /\ IF ~RequestAlive(n)
     THEN ReturnUnsent(t, "CONNECTION_FAILURE", eh[n].client_id)
     ELSE IF ~PeerOpen(c)
     THEN \* the write fails on the broken connection
          /\ nns_edge_unlock(n)
          /\ FinishSent(t, _nns_edge_cmd_send(c, FALSE), 0, eh[n].client_id)
          /\ UNCHANGED <<eh, conn_table, conns, links, backlog, alloc, crashed, ub, cmdrx>>
     ELSE /\ links' = WirePut(links, c, HeaderPiece(t, "TRANSFER_DATA", eh[n].client_id, bufs))
          /\ IF Len(bufs) = 0
             THEN /\ nns_edge_unlock(n)
                  /\ FinishSent(t, _nns_edge_cmd_send(c, TRUE), 1, eh[n].client_id)
             ELSE /\ pc' = [pc EXCEPT ![t] = "send_mem"]
                  /\ loc' = [loc EXCEPT ![t] = [@ EXCEPT !.conn = c, !.sent = 0,
                                                        !.client_id = eh[n].client_id]]
                  /\ UNCHANGED <<lock, ret>>
          /\ UNCHANGED <<eh, conn_table, conns, backlog, alloc, crashed, ub, cmdrx>>

\* the loop of _nns_edge_cmd_send: cmd->mem[n] is written; after the last
\* one the lock is released and the call returns
WireRequestBuffer(t) ==
  LET n == ThreadNode(t)
      c == loc[t].conn
      bufs == loc[t].data.bufs
      i == loc[t].sent + 1
  IN
  /\ InStep(t, "send_mem")
  /\ IF ~PeerOpen(c)
     THEN /\ nns_edge_unlock(n)
          /\ FinishSent(t, _nns_edge_cmd_send(c, FALSE), 1, loc[t].client_id)
          /\ UNCHANGED links
     ELSE /\ links' = WirePut(links, c, BufferPiece(t, bufs[i]))
          /\ IF i = Len(bufs)
             THEN /\ nns_edge_unlock(n)
                  /\ FinishSent(t, _nns_edge_cmd_send(c, TRUE), 1, loc[t].client_id)
             ELSE /\ loc' = [loc EXCEPT ![t].sent = i]
                  /\ UNCHANGED <<pc, lock, ret>>
  /\ UNCHANGED <<eh, conn_table, conns, backlog, alloc, crashed, ub, cmdrx>>

\* the frame the receiver has read in full is handled as in _message_handler
WireFrameDone(c, f, L) ==
  LET n == conns[c].node IN
  /\ links' = L
  /\ \E r \in CallbackReturns(n) :
       conns' = IF f.cmd = "ERROR"
                THEN [conns EXCEPT ![c].running = 0, ![c].thread = "exited", ![c].rx = f]
                ELSE IF f.cmd # "TRANSFER_DATA"
                THEN [conns EXCEPT ![c].thread = "top", ![c].rx = f]
                ELSE [conns EXCEPT ![c].thread = AfterCallback(r), ![c].rx = f,
                                   ![c].events = _nns_edge_invoke_event_cb(
                                      n, @, "NEW_DATA_RECEIVED", NewData(c, f)),
                                   ![c].cbret = Append(@, r)]

\* _nns_edge_cmd_receive, first read: sizeof (nns_edge_cmd_info_s) bytes are
\* taken as the header, whatever was written there
WireReceiveHeader(c) ==
  LET p == Head(InQ(c))
      f == IF p.kind = "info" THEN Frame(p.cmd, p.client_id, <<>>)
           ELSE Frame("garbage", 0, <<>>)
      num == IF p.kind = "info" THEN p.num ELSE 0
  IN
  /\ ThreadRuns(c) /\ conns[c].thread = "recv" /\ conns[c].st = "live"
  /\ eh[conns[c].node].mem = "live"
  /\ \E ok \in RecvOutcomes(c) :
       IF ~ok THEN MsgExit(c) /\ UNCHANGED links
       ELSE IF num = 0 THEN WireFrameDone(c, f, LinkRecv(links, c))
       ELSE /\ conns' = [conns EXCEPT ![c].thread = "recv_mem",
                                      ![c].rx = [f EXCEPT !.num = num]]
            /\ links' = LinkRecv(links, c)
  /\ UNCHANGED <<eh, lock, conn_table, backlog, pc, loc, ret, alloc, crashed, ub, cmdrx>>

\* the loop of _nns_edge_cmd_receive: the next mem_size[n] bytes are taken
\* as cmd->mem[n], whatever was written there
WireReceiveBuffer(c) ==
  LET p == Head(InQ(c))
      b == IF p.kind = "mem" THEN p.mem ELSE 0
      f == [conns[c].rx EXCEPT !.mem = Append(@, b)]
  IN
  /\ ThreadRuns(c) /\ conns[c].thread = "recv_mem" /\ conns[c].st = "live"
  /\ eh[conns[c].node].mem = "live"
  /\ \E ok \in RecvOutcomes(c) :
       IF ~ok THEN MsgExit(c) /\ UNCHANGED links
       ELSE IF Len(f.mem) = f.num THEN WireFrameDone(c, f, LinkRecv(links, c))
       ELSE /\ conns' = [conns EXCEPT ![c].rx = f]
            /\ links' = LinkRecv(links, c)
  /\ UNCHANGED <<eh, lock, conn_table, backlog, pc, loc, ret, alloc, crashed, ub, cmdrx>>

NextWire ==
  \/ \E t \in WireThread : \E b \in WireBufSeqs : WireCallRequest(t, b)
  \/ \E t \in WireThread : nns_edge_lock(t)
  \/ \E t \in WireThread : WireRequestHeader(t)
  \/ \E t \in WireThread : WireRequestBuffer(t)
  \/ \E c \in ConnId : MessageHandlerTop(c)
  \/ \E c \in ConnId : WireReceiveHeader(c)
  \/ \E c \in ConnId : WireReceiveBuffer(c)

SpecWire == InitWire /\ [][NextWire]_vars

(***************************************************************************)
(* The byte stream.  One _nns_edge_cmd_send and the _nns_edge_cmd_receive  *)
(* that reads what it writes, over a transport that takes or gives fewer   *)
(* bytes than asked for.  A unit of the stream is one field of the         *)
(* nns_edge_cmd_info_s or one byte of a buffer.  cmdrx holds both ends:    *)
(* tx is the command handed to send, put every unit the socket has taken,  *)
(* wire the units in flight, info and mem what receive has stored, mallocs *)
(* and frees the slots of cmd->mem allocated and freed by receive; short_w *)
(* and short_r tell that a call moved fewer units than it was asked for.   *)
(***************************************************************************)
\* nns_edge_cmd_e as the integer that is written
CmdNames == <<"ERROR", "TRANSFER_DATA", "HOST_INFO", "CAPABILITY">>
CmdCode(cmd) == (CHOOSE i \in 1..Len(CmdNames) : CmdNames[i] = cmd) - 1
CmdOfCode(code) == IF code \in 0..(Len(CmdNames) - 1) THEN CmdNames[code + 1] ELSE "-"

\* sizeof (nns_edge_cmd_info_s) in units: cmd, client_id, num, mem_size[]
InfoLen == 3 + NNS_EDGE_DATA_LIMIT

\* a command as its caller builds it: _nns_edge_cmd_init zeroes mem_size[],
\* the first num sizes are those of the buffers
StreamCmd(cmd, cid, mem) ==
  [cmd |-> cmd, client_id |-> cid, num |-> Len(mem),
   mem_size |-> [i \in 1..NNS_EDGE_DATA_LIMIT |-> IF i <= Len(mem) THEN Len(mem[i]) ELSE 0],
   mem |-> mem]

\* a header written without its command
InfoBytes_NoCmd(f) == <<0, f.client_id, f.num>> \o f.mem_size

\* &cmd->info as the units _send_raw_data is given
InfoBytes(f) == <<CmdCode(f.cmd), f.client_id, f.num>> \o f.mem_size

\* cmd->info as read back from the units received into it
ParseInfo(b) ==
  [cmd |-> CmdOfCode(b[1]), client_id |-> b[2], num |-> b[3],
   mem_size |-> SubSeq(b, 4, InfoLen)]

\* the commands of the runs: every buffer count up to the limit, buffers of
\* 1..MaxBufLen bytes, contents that differ from place to place
StreamBuf(i, p) == [j \in 1..(1 + ((i + p) % MaxBufLen)) |-> (2 * i + j + p) % 5]

StreamCmds ==
  {StreamCmd(CmdNames[1 + ((k + p) % 4)], k + p + 1, [i \in 1..k |-> StreamBuf(i, p)]) :
     k \in 0..NNS_EDGE_DATA_LIMIT, p \in 0..(MaxBufLen - 1)}

\* memory from malloc holds no byte that was sent
Uninit == -1

StreamStart(f) ==
  [st |-> "stream", tx |-> f,
   s_n |-> 0, s_off |-> 0, s_ret |-> "-", put |-> <<>>, wire |-> <<>>,
   r_n |-> 0, r_off |-> 0, r_ret |-> "-",
   info |-> [i \in 1..InfoLen |-> Uninit], mem |-> <<>>, mallocs |-> <<>>, frees |-> <<>>,
   short_w |-> FALSE, short_r |-> FALSE]

InitStream ==
  /\ eh = [n \in Node |-> HandleInit]
  /\ lock = [n \in Node |-> "free"]
  /\ conn_table = [n \in Node |-> EmptyTable]
  /\ conns = [c \in ConnId |-> ConnInit]
  /\ links = [l \in LinkId |-> LinkInit]
  /\ backlog = [n \in Node |-> <<>>]
  /\ pc = [t \in Thread |-> "idle"]
  /\ loc = [t \in Thread |-> LocInit]
  /\ ret = [t \in Thread |-> RetInit]
  /\ alloc = [conn |-> 1, link |-> 1, entry |-> 1, time |-> 0, faults |-> 0,
              iofail |-> FALSE, ops |-> 0]
  /\ crashed = [n \in Node |-> FALSE]
  /\ ub = {}
  /\ cmdrx \in {StreamStart(f) : f \in StreamCmds}

\* the data and the size of the _send_raw_data that _nns_edge_cmd_send is in:
\* the header, then cmd->mem[n] with cmd->info.mem_size[n]
SendData(x) == IF x.s_n = 0 THEN InfoBytes(x.tx) ELSE x.tx.mem[x.s_n]
SendSize(x) == IF x.s_n = 0 THEN InfoLen ELSE x.tx.mem_size[x.s_n]

\* a send that starts again from the first byte after a partial write
SendFrom_Start(data, bytes_sent, rret) == SubSeq(data, 1, rret)

\* g_socket_send (socket, data + bytes_sent, size - bytes_sent): the rret
\* units the socket took
SendFrom(data, bytes_sent, rret) == SubSeq(data, bytes_sent + 1, bytes_sent + rret)

\* where _nns_edge_cmd_send stands once bytes_sent has reached size: the
\* next buffer, or the return of NONE after the last one
SendAdvance(x) ==
  IF x.s_n < x.tx.num THEN [x EXCEPT !.s_n = @ + 1, !.s_off = 0]
  ELSE [x EXCEPT !.s_ret = "NONE"]

\* a failed _send_raw_data: _nns_edge_cmd_send returns NNS_EDGE_ERROR_IO at
\* once, from the header as from the buffer it was writing
SendFailed_NextBuffer(x) ==
  IF x.s_n > 0 /\ x.s_n < x.tx.num THEN [x EXCEPT !.s_n = @ + 1, !.s_off = 0]
  ELSE [x EXCEPT !.s_ret = "IO"]

SendFailed(x) == [x EXCEPT !.s_ret = "IO"]

\* one turn of the loop of _send_raw_data: the socket takes at least one
\* unit and at most what is left, or the send fails
SendRawStep ==
  LET x == cmdrx
      left == SendSize(x) - x.s_off
  IN
  /\ x.st = "stream" /\ x.s_ret = "-"
  /\ \/ \E rret \in 1..left :
          LET y == [x EXCEPT !.s_off = @ + rret,
                             !.short_w = @ \/ rret < left,
                             !.put = @ \o SendFrom(SendData(x), x.s_off, rret),
                             !.wire = @ \o SendFrom(SendData(x), x.s_off, rret)]
          IN cmdrx' = IF y.s_off < SendSize(x) THEN y ELSE SendAdvance(y)
     \/ cmdrx' = SendFailed(x)
  /\ UNCHANGED <<eh, lock, conn_table, conns, links, backlog, pc, loc, ret, alloc, crashed, ub>>

\* the size of the _receive_raw_data that _nns_edge_cmd_receive is in
RecvSize(x) == IF x.r_n = 0 THEN InfoLen ELSE ParseInfo(x.info).mem_size[x.r_n]

\* a receive that stores every chunk at the start of the buffer
StoreAt_Start(buf, bytes_received, chunk) ==
  [i \in 1..Len(buf) |-> IF i <= Len(chunk) THEN chunk[i] ELSE buf[i]]

\* g_socket_receive (socket, data + bytes_received, ...): the chunk lands
\* behind what was received before
StoreAt(buf, bytes_received, chunk) ==
  [i \in 1..Len(buf) |->
     IF i > bytes_received /\ i <= bytes_received + Len(chunk)
     THEN chunk[i - bytes_received] ELSE buf[i]]

\* a slot of cmd->mem that holds NULL
NullSlot == [null |-> TRUE, bytes |-> <<>>]

\* malloc (cmd->info.mem_size[n]) into cmd->mem[n]: the slot holds the new
\* buffer, or NULL when malloc fails
MallocBuf(x, n, malloc_ok) ==
  [x EXCEPT !.mem = Append(@, IF malloc_ok
                              THEN [null |-> FALSE,
                                    bytes |-> [i \in 1..ParseInfo(x.info).mem_size[n] |-> Uninit]]
                              ELSE NullSlot),
            !.mallocs = IF malloc_ok THEN Append(@, n) ELSE @]

\* a failed read that leaves n where it was
FailedReadIndex_Same(n) == n

\* n after "Failed to receive %uth memory from socket.", n++
FailedReadIndex(n) == n + 1

\* for (i = 0; i < n; i++) free (cmd->mem[i]), cmd->mem[i] = NULL; free (NULL)
\* does nothing
FreeBelow(x, n) ==
  [x EXCEPT
     !.frees = @ \o SelectSeq([i \in 1..Len(x.mem) |-> i],
                              LAMBDA i : i <= n /\ ~x.mem[i].null),
     !.mem = [i \in 1..Len(x.mem) |-> IF i <= n THEN NullSlot ELSE x.mem[i]]]

\* where _nns_edge_cmd_receive stands once bytes_received has reached size:
\* the loop test, with the malloc of the next buffer, or the return of NONE
\* (r_n buffers have been read: n of the loop is r_n)
RecvAdvance(x, malloc_ok) ==
  IF x.r_n >= ParseInfo(x.info).num THEN [x EXCEPT !.r_ret = "NONE"]
  ELSE IF ~malloc_ok
  THEN [FreeBelow(MallocBuf(x, x.r_n + 1, FALSE), x.r_n) EXCEPT !.r_ret = "OUT_OF_MEMORY"]
  ELSE [MallocBuf(x, x.r_n + 1, TRUE) EXCEPT !.r_n = @ + 1, !.r_off = 0]

\* the return of _nns_edge_cmd_receive after a failed _receive_raw_data: of
\* the header, or of cmd->mem[n] (n is r_n - 1 while buffer r_n is read)
RecvFail(x) ==
  IF x.r_n = 0 THEN [x EXCEPT !.r_ret = "IO"]
  ELSE [FreeBelow(x, FailedReadIndex(x.r_n - 1)) EXCEPT !.r_ret = "IO"]

\* one turn of the loop of _receive_raw_data: the socket gives at least one
\* unit and at most what was asked for and has arrived, or the receive
\* fails (when nothing is in flight: once the sending end has gone)
RecvRawStep ==
  LET x == cmdrx
      left == RecvSize(x) - x.r_off
      avail == Len(x.wire)
      most == IF left < avail THEN left ELSE avail
  IN
  /\ x.st = "stream" /\ x.r_ret = "-"
  /\ \/ /\ avail > 0
        /\ \E rret \in 1..most, malloc_ok \in BOOLEAN :
             LET chunk == SubSeq(x.wire, 1, rret)
                 y == IF x.r_n = 0
                      THEN [x EXCEPT !.info = StoreAt(@, x.r_off, chunk)]
                      ELSE [x EXCEPT !.mem[x.r_n].bytes = StoreAt(@, x.r_off, chunk)]
                 z == [y EXCEPT !.r_off = @ + rret,
                                !.short_r = @ \/ rret < left,
                                !.wire = SubSeq(@, rret + 1, Len(@))]
             IN cmdrx' = IF z.r_off < RecvSize(x) THEN z ELSE RecvAdvance(z, malloc_ok)
     \/ /\ avail > 0 \/ x.s_ret = "IO"
        /\ cmdrx' = RecvFail(x)
  /\ UNCHANGED <<eh, lock, conn_table, conns, links, backlog, pc, loc, ret, alloc, crashed, ub>>

NextStream == SendRawStep \/ RecvRawStep

SpecStream == InitStream /\ [][NextStream]_vars

(***************************************************************************)
(* The capability string.  The handle of node A is as nns_edge_create_handle *)
(* left it; its application thread sets CAPS up to MaxCaps times and starts  *)
(* the handle as server, node B (a started client) connects, and the        *)
(* handshakes run.  caps_set of a handle is the concatenation of the values *)
(* set_info was given for CAPS.                                             *)
(***************************************************************************)
CapsVals == {<<"a">>, <<"b">>}

CapsIdle(t) == pc[t] = "idle" /\ Live(t) /\ eh[ThreadNode(t)].mem = "live"

CapsSetInfo(t, value) ==
  /\ CapsIdle(t)
  /\ Len(eh[ThreadNode(t)].caps_set) < MaxCaps
  /\ Enter(t, "set_info", [LocInit EXCEPT !.op = "set_info", !.key = "CAPS", !.val = value])

CapsStart(t) ==
  /\ CapsIdle(t) /\ ~eh[ThreadNode(t)].listener
  /\ ret[t].op # "start"
  /\ Enter(t, "start", [LocInit EXCEPT !.op = "start", !.arg = 1])

CapsConnect(t) ==
  /\ CapsIdle(t)
  /\ ret[t].op = "none"
  /\ alloc.conn <= MaxConn /\ alloc.link <= MaxLink
  /\ Enter(t, "connect", [LocInit EXCEPT !.op = "connect", !.ip = Localhost,
                                          !.has_ip = TRUE, !.port = PeerPort(t)])

InitCaps ==
  /\ eh = [n \in Node |-> IF n = "A" THEN HandleInit ELSE Started(n, FALSE)]
  /\ lock = [n \in Node |-> "free"]
  /\ conn_table = [n \in Node |-> EmptyTable]
  /\ conns = [c \in ConnId |-> ConnInit]
  /\ links = [l \in LinkId |-> LinkInit]
  /\ backlog = [n \in Node |-> <<>>]
  /\ pc = [t \in Thread |-> "idle"]
  /\ loc = [t \in Thread |-> LocInit]
  /\ ret = [t \in Thread |-> RetInit]
  /\ alloc = [conn |-> 1, link |-> 1, entry |-> 1, time |-> 0, faults |-> 0,
              iofail |-> FALSE, ops |-> 0]
  /\ crashed = [n \in Node |-> FALSE]
  /\ ub = {}
  /\ cmdrx = CmdRxInit

NextCaps ==
  \/ \E v \in CapsVals : CapsSetInfo("tA", v)
  \/ CapsStart("tA")
  \/ CapsConnect("tB")
  \/ \E t \in NetThread : nns_edge_lock(t)
  \/ nns_edge_set_info("tA")
  \/ nns_edge_start("tA")
  \/ nns_edge_connect("tB")
  \/ \E t \in {"tB"} \cup LoopThread : Handshake(t)
  \/ \E m \in LoopThread : AcceptStep(m)
  \/ \E c \in ConnId : Receiver(c)

SpecCaps == InitCaps /\ [][NextCaps]_vars

\* a receiver thread is a running pthread: the scheduler lets it take its
\* next step (the loop condition, a read whose bytes have arrived)
WireReceiverStep(c) ==
  MessageHandlerTop(c) \/ WireReceiveHeader(c) \/ WireReceiveBuffer(c)

SpecWireFair == SpecWire /\ \A c \in ConnId : WF_vars(WireReceiverStep(c))

(***************************************************************************)
(* The reverse dial.  A is started as server and B as client; B connects   *)
(* to A, and B's application may connect once, to a server that is         *)
(* not one of the two nodes (its side of the handshake is the environment: *)
(* it accepts, sends CAPABILITY with an identifier of its own clock and    *)
(* takes the reply).                                                       *)
(***************************************************************************)
\* identifiers the other server can generate with g_get_monotonic_time
ElsewhereIds == 1..(MaxTime + 1)

\* nns_edge_connect of thread t to the other server, from lock to unlock:
\* _nns_edge_tcp_connect dials, receives CAPABILITY (y), stores y in
\* eh->client_id, asks the callback, sends HOST_INFO or ERROR and registers
\* the Connection as sink_conn under y; a failed dial closes the Connection
ConnectElsewhere(t) ==
  LET n == ThreadNode(t)
      c == alloc.conn
  IN
  /\ MayCall(t)
  /\ lock[n] = "free"
  /\ NNS_EDGE_MAGIC_IS_VALID(n) /\ eh[n].event_cb
  /\ alloc.conn <= MaxConn /\ alloc.entry <= MaxEntry
  /\ \E ok \in BOOLEAN, y \in ElsewhereIds, r \in CallbackReturns(n) :
       LET key == GUINT_TO_POINTER(y)
           tbl == conn_table[n]
           e == IF key \in DOMAIN tbl THEN tbl[key] ELSE NewEntry(y, alloc.entry)
           old == OldConn(e, "sink", c)
           C == [conns EXCEPT ![c] = [NewConn(n, NULL, "d") EXCEPT !.socket = TRUE]]
       IN
       IF ~ok
       THEN /\ conns' = [conns EXCEPT ![c] = [NewConn(n, NULL, "d") EXCEPT
                                                !.st = "freed", !.cancellable = FALSE]]
            /\ eh' = [eh EXCEPT ![n].is_server = FALSE]
            /\ alloc' = [alloc EXCEPT !.conn = @ + 1, !.ops = @ + 1, !.iofail = TRUE]
            /\ ret' = [ret EXCEPT ![t] = [RetInit EXCEPT !.op = "connect",
                                                         !.status = "CONNECTION_FAILURE"]]
            /\ UNCHANGED <<conn_table, links>>
       ELSE /\ ~NeedsJoin(conns, old)
            /\ eh' = [eh EXCEPT ![n].is_server = FALSE, ![n].client_id = y]
            /\ conn_table' = [conn_table EXCEPT
                                ![n] = TablePut(tbl, key, [e EXCEPT !.sink_conn = c])]
            /\ conns' = _nns_edge_close_connection(C, old)
            /\ links' = LinkClose(links, C, old)
            /\ alloc' = [alloc EXCEPT !.conn = @ + 1, !.ops = @ + 1,
                                      !.entry = IF key \in DOMAIN tbl THEN @ ELSE @ + 1]
            /\ ret' = [ret EXCEPT ![t] = [RetInit EXCEPT !.op = "connect", !.status = "NONE",
                                                         !.sent = 1, !.cb = r, !.id = y,
                                                         !.conn = c]]
  /\ UNCHANGED <<lock, backlog, pc, loc, crashed, ub, cmdrx>>

NextDial ==
  \/ CallConnect("tB", PeerPort("tB"))
  \/ nns_edge_lock("tB")
  \/ nns_edge_connect("tB")
  \/ ConnectElsewhere("tB")
  \/ \E t \in {"tB"} \cup LoopThread : Handshake(t)
  \/ \E m \in LoopThread : AcceptStep(m)

SpecDial == InitStarted /\ [][NextDial]_vars

(***************************************************************************)
(* _nns_edge_close_connection, statement by statement, on one Connection   *)
(* while its receiver thread (if it has one) runs.  cmdrx holds the        *)
(* Connection, the position of the closing thread and the record of the    *)
(* statements executed (log).                                              *)
(***************************************************************************)
\* the Connections the program builds: accepted with a running receiver,
\* accepted with a receiver that has left its loop, dialled and connected,
\* dialled with g_socket_connect failed (no socket)
CloseKinds == {"accepted", "exited", "dialled", "unconnected"}

CloseConn(kind) ==
  [mem |-> "live",
   running |-> IF kind = "accepted" THEN 1 ELSE 0,
   socket |-> kind # "unconnected",
   cancellable |-> TRUE,
   thread |-> IF kind = "accepted" THEN "recv"
              ELSE IF kind = "exited" THEN "exited" ELSE "none"]

CloseStart(kind) ==
  [st |-> "close", kind |-> kind, conn |-> CloseConn(kind), pc |-> "idle",
   calls |-> 0, log |-> <<>>, rets |-> <<>>, ub |-> {}, crashed |-> FALSE]

InitClose ==
  /\ eh = [n \in Node |-> HandleInit]
  /\ lock = [n \in Node |-> "free"]
  /\ conn_table = [n \in Node |-> EmptyTable]
  /\ conns = [c \in ConnId |-> ConnInit]
  /\ links = [l \in LinkId |-> LinkInit]
  /\ backlog = [n \in Node |-> <<>>]
  /\ pc = [t \in Thread |-> "idle"]
  /\ loc = [t \in Thread |-> LocInit]
  /\ ret = [t \in Thread |-> RetInit]
  /\ alloc = [conn |-> 1, link |-> 1, entry |-> 1, time |-> 0, faults |-> 0,
              iofail |-> FALSE, ops |-> 0]
  /\ crashed = [n \in Node |-> FALSE]
  /\ ub = {}
  /\ cmdrx \in {CloseStart(k) : k \in CloseKinds}

CloseRuns == cmdrx.st = "close" /\ ~cmdrx.crashed

CloseFrame ==
  UNCHANGED <<eh, lock, conn_table, conns, links, backlog, pc, loc, ret, alloc, crashed, ub>>

\* what a call with a pointer to freed memory can do: conn->running and the
\* other fields are read from the freed block and the block is freed again
FreedCloseOutcomes == {"abort", "return"}

\* the call and its first statements: the NULL test, and for a Connection
\* with conn->running set the clearing of the flag
CloseCall ==
  /\ CloseRuns /\ cmdrx.pc = "idle" /\ cmdrx.calls < MaxClose
  /\ IF cmdrx.conn.mem = "freed"
     THEN \E o \in FreedCloseOutcomes :
            cmdrx' = [cmdrx EXCEPT !.calls = @ + 1,
                                   !.ub = @ \cup {"close-of-freed-connection"},
                                   !.crashed = (o = "abort"),
                                   !.rets = IF o = "abort" THEN @ ELSE Append(@, "undefined")]
     ELSE IF cmdrx.conn.running = 1
     THEN cmdrx' = [cmdrx EXCEPT !.calls = @ + 1, !.conn.running = 0,
                                 !.log = Append(@, "clear_running"), !.pc = "join"]
     ELSE cmdrx' = [cmdrx EXCEPT !.calls = @ + 1, !.pc = "socket"]
  /\ CloseFrame

\* pthread_join of the receiver thread, which was created detached
ClosePthreadJoin ==
  /\ CloseRuns /\ cmdrx.pc = "join"
  /\ \E j \in JoinOutcomes :
       cmdrx' = IF j = "abort"
                THEN [cmdrx EXCEPT !.crashed = TRUE, !.ub = @ \cup {"join-detached"}]
                ELSE [cmdrx EXCEPT !.log = Append(@, "join"), !.pc = "socket",
                                   !.ub = @ \cup {"join-detached"}]
  /\ CloseFrame

\* g_socket_close and g_object_unref of the socket; a failed g_socket_close
\* returns false and leaves the rest as it is
CloseSocket ==
  /\ CloseRuns /\ cmdrx.pc = "socket"
  /\ IF ~cmdrx.conn.socket
     THEN cmdrx' = [cmdrx EXCEPT !.pc = "cancellable"]
     ELSE \E ok \in BOOLEAN :
            cmdrx' = IF ok
                     THEN [cmdrx EXCEPT !.conn.socket = FALSE,
                                        !.log = Append(@, "close_socket"),
                                        !.pc = "cancellable"]
                     ELSE [cmdrx EXCEPT !.rets = Append(@, "false"), !.pc = "idle"]
  /\ CloseFrame

\* g_object_unref of the cancellable
CloseCancellable ==
  /\ CloseRuns /\ cmdrx.pc = "cancellable"
  /\ cmdrx' = IF cmdrx.conn.cancellable
              THEN [cmdrx EXCEPT !.conn.cancellable = FALSE,
                                 !.log = Append(@, "unref_cancellable"), !.pc = "free"]
              ELSE [cmdrx EXCEPT !.pc = "free"]
  /\ CloseFrame

\* g_free (conn->ip), g_free (conn), return true
CloseFree ==
  /\ CloseRuns /\ cmdrx.pc = "free"
  /\ cmdrx' = [cmdrx EXCEPT !.conn.mem = "freed", !.log = Append(@, "free"),
                            !.rets = Append(@, "true"), !.pc = "idle"]
  /\ CloseFrame

\* the receiver's blocked _nns_edge_cmd_receive returns: with a TRANSFER_DATA
\* frame (the callback is invoked), with another frame, or with a failure
\* (end of stream, the timeout, a socket closed under it), which leaves the loop
CloseReceiveOutcomes ==
  IF cmdrx.conn.mem = "live" /\ cmdrx.conn.socket
  THEN {"callback", "top", "leaving"} ELSE {"leaving"}

CloseReceiverWakes ==
  /\ CloseRuns /\ cmdrx.conn.thread = "recv"
  /\ \E o \in CloseReceiveOutcomes : cmdrx' = [cmdrx EXCEPT !.conn.thread = o]
  /\ CloseFrame

\* the application's callback returns
CloseReceiverCallback ==
  /\ CloseRuns /\ cmdrx.conn.thread = "callback"
  /\ cmdrx' = [cmdrx EXCEPT !.conn.thread = "top"]
  /\ CloseFrame

\* the receiver's loop condition while (conn->running)
CloseReceiverTop ==
  /\ CloseRuns /\ cmdrx.conn.thread = "top"
  /\ cmdrx' = IF cmdrx.conn.mem = "freed"
              THEN [cmdrx EXCEPT !.conn.thread = "undefined",
                                 !.ub = @ \cup {"conn-read-by-receiver"}]
              ELSE IF cmdrx.conn.running = 0
              THEN [cmdrx EXCEPT !.conn.thread = "leaving"]
              ELSE [cmdrx EXCEPT !.conn.thread = "recv"]
  /\ CloseFrame

\* after the loop: conn->running = 0, and the thread ends
CloseReceiverLeaves ==
  /\ CloseRuns /\ cmdrx.conn.thread = "leaving"
  /\ cmdrx' = IF cmdrx.conn.mem = "freed"
              THEN [cmdrx EXCEPT !.conn.thread = "exited",
                                 !.ub = @ \cup {"conn-written-by-receiver"}]
              ELSE [cmdrx EXCEPT !.conn.thread = "exited", !.conn.running = 0]
  /\ CloseFrame

NextClose ==
  \/ CloseCall
  \/ ClosePthreadJoin
  \/ CloseSocket
  \/ CloseCancellable
  \/ CloseFree
  \/ CloseReceiverWakes
  \/ CloseReceiverCallback
  \/ CloseReceiverTop
  \/ CloseReceiverLeaves

SpecClose == InitClose /\ [][NextClose]_vars

(***************************************************************************)
(* The receiver loop on frames a peer chose.  From the state of an         *)
(* established duplex connection (InitWire) the remote end of each         *)
(* accepted socket writes frames of any command, and the receiver threads  *)
(* run.                                                                    *)
(***************************************************************************)
\* the frames a remote end can write: every command without a buffer, and
\* TRANSFER_DATA with one
PeerFrames ==
  {Frame(CmdNames[i], 1, <<>>) : i \in 1..Len(CmdNames)} \cup
  {Frame("TRANSFER_DATA", 1, <<11>>)}

\* the remote end of link l writes one frame to the accepted socket
RECURSIVE PeerWritten(_)
PeerWritten(l) == IF l = 0 THEN 0 ELSE Len(links[l].wrote) + PeerWritten(l - 1)

PeerWrites(l, f) ==
  /\ links[l].st = "open" /\ links[l].a_open /\ links[l].d_open
  /\ PeerWritten(MaxLink) < MaxFrames
  /\ links' = [links EXCEPT ![l].d2a = Append(@, f), ![l].wrote = Append(@, f)]
  /\ UNCHANGED <<eh, lock, conn_table, conns, backlog, pc, loc, ret, alloc, crashed, ub, cmdrx>>

NextPeer ==
  \/ \E l \in LinkId : \E f \in PeerFrames : PeerWrites(l, f)
  \/ \E c \in ConnId : MessageHandlerTop(c)
  \/ \E c \in ConnId : MessageHandlerReceive(c)

SpecPeer == InitWire /\ [][NextPeer]_vars

(***************************************************************************)
(* The runs of Spec in which the application of node A, too, may call       *)
(* nns_edge_disconnect, on the table that accepting has filled.             *)
(***************************************************************************)
NextDisconnect ==
  \/ Next
  \/ CallDisconnect("tA")

SpecDisconnect == InitStarted /\ [][NextDisconnect]_vars

(***************************************************************************)
(* Release of a handle whose receivers are running.  The receiver is taken *)
(* in three steps here: the loop head, the return of _nns_edge_cmd_receive *)
(* with the test of the command, and _nns_edge_invoke_event_cb, which reads *)
(* eh->event_cb and eh->user_data through the pointer the thread was given *)
(* when it was created.  Between the last two the thread reads neither the *)
(* Connection nor the socket.                                              *)
(***************************************************************************)
MessageHandlerGot(c) ==
  LET f == Head(InQ(c)) IN
  /\ ThreadRuns(c) /\ conns[c].thread = "recv"
  /\ IF conns[c].st = "freed"
     THEN \* conn->socket and conn->cancellable of a freed Connection
          /\ ub' = ub \cup {"conn-read-by-receiver"}
          /\ conns' = [conns EXCEPT ![c].thread = "undefined"]
          /\ UNCHANGED links
     ELSE \E ok \in RecvOutcomes(c) :
          IF ~ok
          THEN MsgExit(c) /\ UNCHANGED <<links, ub>>
          ELSE IF FrameVerdict(f) = "break"
          THEN MsgExit(c) /\ links' = LinkRecv(links, c) /\ UNCHANGED ub
          ELSE /\ conns' = [conns EXCEPT
                              ![c].thread = IF FrameVerdict(f) = "continue"
                                            THEN "top" ELSE "deliver",
                              ![c].rx = f]
               /\ links' = LinkRecv(links, c)
               /\ UNCHANGED ub
  /\ UNCHANGED <<eh, lock, conn_table, backlog, pc, loc, ret, alloc, crashed, cmdrx>>

\* eh->event_cb read from a handle that was freed is whatever the memory
\* holds: NULL as release left it, or a pointer that is then called
MessageHandlerInvoke(c) ==
  LET n == conns[c].node
      e == [event |-> "NEW_DATA_RECEIVED", data |-> NewData(c, conns[c].rx)]
  IN
  /\ ThreadRuns(c) /\ conns[c].thread = "deliver"
  /\ IF eh[n].mem = "freed"
     THEN /\ ub' = ub \cup {"handle-read-by-receiver"}
          /\ \E called \in BOOLEAN :
               conns' = [conns EXCEPT ![c].thread = "top",
                                      ![c].events = IF called THEN Append(@, e) ELSE @]
     ELSE /\ \E r \in CallbackReturns(n) :
               conns' = [conns EXCEPT ![c].thread = AfterCallback(r),
                                      ![c].events = _nns_edge_invoke_event_cb(
                                         n, @, "NEW_DATA_RECEIVED", e.data),
                                      ![c].cbret = Append(@, r)]
          /\ UNCHANGED ub
  /\ UNCHANGED <<eh, lock, conn_table, links, backlog, pc, loc, ret, alloc, crashed, cmdrx>>

NextRelease ==
  \/ CallRelease("tA")
  \/ nns_edge_lock("tA")
  \/ nns_edge_release_handle("tA")
  \/ nns_edge_lock_destroy("tA")
  \/ ReleaseFree("tA")
  \/ \E l \in LinkId : \E f \in PeerFrames : PeerWrites(l, f)
  \/ \E c \in ConnId : MessageHandlerTop(c)
  \/ \E c \in ConnId : MessageHandlerGot(c)
  \/ \E c \in ConnId : MessageHandlerInvoke(c)

SpecRelease == InitWire /\ [][NextRelease]_vars

(***************************************************************************)
(* Release of a started handle while a peer dials it.  Release leaves      *)
(* eh->listener and eh->cancellable as nns_edge_start made them: the       *)
(* socket goes on listening and the accept that was armed stays armed with *)
(* the handle as its user_data.  The continuation of a freed handle reads   *)
(* eh->is_server first: what it does from there is undefined.               *)
(***************************************************************************)
AcceptAfterRelease(m) ==
  LET n == ThreadNode(m) IN
  /\ pc[m] = "idle" /\ Live(m)
  /\ eh[n].mem = "freed"
  /\ eh[n].armed /\ Len(backlog[n]) > 0
  /\ backlog' = [backlog EXCEPT ![n] = Tail(@)]
  /\ ub' = ub \cup {"handle-read-by-accept"}
  /\ ret' = [ret EXCEPT ![m] = [RetInit EXCEPT !.op = "accept", !.status = "undefined"]]
  /\ UNCHANGED <<eh, lock, conn_table, conns, links, pc, loc, alloc, crashed, cmdrx>>

NextListener ==
  \/ CallRelease("tA")
  \/ nns_edge_lock("tA")
  \/ nns_edge_release_handle("tA")
  \/ nns_edge_lock_destroy("tA")
  \/ ReleaseFree("tA")
  \/ CallConnect("tB", PeerPort("tB"))
  \/ nns_edge_lock("tB")
  \/ nns_edge_connect("tB")
  \/ \E t \in {"tB"} \cup LoopThread : Handshake(t)
  \/ \E m \in LoopThread : AcceptStep(m)
  \/ \E m \in LoopThread : AcceptAfterRelease(m)

SpecListener == InitStarted /\ [][NextListener]_vars

(***************************************************************************)
(* Connect with a note of what the handle held when the call was made: the *)
(* note (field "was" of the caller's frame) is history only, no step reads *)
(* it.                                                                      *)
(***************************************************************************)
ConnectFrame(n, port) ==
  [f \in DOMAIN LocInit \cup {"was"} |->
     IF f = "was" THEN [client_id |-> eh[n].client_id, table |-> conn_table[n]]
     ELSE IF f = "op" THEN "connect"
     ELSE IF f = "ip" THEN Localhost
     ELSE IF f = "has_ip" THEN TRUE
     ELSE IF f = "port" THEN port
     ELSE LocInit[f]]

CallConnectNoted(t, port) ==
  /\ MayCall(t)
  /\ alloc.conn <= MaxConn /\ alloc.link <= MaxLink
  /\ Enter(t, "connect", ConnectFrame(ThreadNode(t), port))

NextConnect ==
  \/ CallConnectNoted("tB", PeerPort("tB"))
  \/ nns_edge_lock("tB")
  \/ nns_edge_connect("tB")
  \/ \E t \in {"tB"} \cup LoopThread : Handshake(t)
  \/ \E m \in LoopThread : AcceptStep(m)

SpecConnect == InitStarted /\ [][NextConnect]_vars

(***************************************************************************)
(* A dialler that is not this program: it connects to the listener of A    *)
(* and answers the CAPABILITY frame with a frame of its own choosing, with *)
(* or without a buffer.  The accept continuation of A and what follows it  *)
(* (registration, reverse dial to the address it parsed) are the steps of  *)
(* the program.                                                            *)
(***************************************************************************)
HandshakeFrames ==
  {Frame("HOST_INFO", 1, <<>>),
   Frame("HOST_INFO", 1, <<_get_host_str(Localhost, AvailablePort("B"))>>),
   Frame("CAPABILITY", 1, <<>>)}

ForeignDials ==
  LET l == alloc.link IN
  /\ l <= MaxLink
  /\ "A" \in ListenerAt(AvailablePort("A"))
  /\ \A k \in LinkId : links[k].st = "free"
  /\ links' = [links EXCEPT ![l] = NewLink("B", "A")]
  /\ backlog' = [backlog EXCEPT !["A"] = Append(@, l)]
  /\ alloc' = [alloc EXCEPT !.link = @ + 1]
  /\ UNCHANGED <<eh, lock, conn_table, conns, pc, loc, ret, crashed, ub, cmdrx>>

ForeignReplies(f) ==
  /\ Len(links[1].a2d) > 0
  /\ PeerWrites(1, f)

NextForeign ==
  \/ ForeignDials
  \/ \E f \in HandshakeFrames : ForeignReplies(f)
  \/ \E m \in LoopThread : AcceptStep(m)
  \/ \E m \in LoopThread : Handshake(m)

SpecForeign == InitStarted /\ [][NextForeign]_vars

(***************************************************************************)
(* The keys of the connection table.  client_id is an int64_t, taken here  *)
(* as its two 32-bit words <<high, low>>.  GUINT_TO_POINTER casts it to    *)
(* gulong and then to a pointer, and g_direct_equal compares the pointers: *)
(* a build whose pointers have 64 bits keeps both words, a build whose     *)
(* pointers have 32 bits keeps the low word.  The table is used as         *)
(* _nns_edge_add_conn and _nns_edge_get_conn use it.                        *)
(***************************************************************************)
MaxWord == 1

PointerBits == {32, 64}

ClientIds == (0..MaxWord) \X (0..MaxWord)

GUINT_TO_POINTER_Build(bits, u) == IF bits = 64 THEN u ELSE <<0, u[2]>>

KeysStart(bits) ==
  [st |-> "keys", bits |-> bits, table |-> EmptyTable, op |-> "none",
   x |-> <<0, 0>>, got |-> <<>>]

InitKeys ==
  /\ eh = [n \in Node |-> HandleInit]
  /\ lock = [n \in Node |-> "free"]
  /\ conn_table = [n \in Node |-> EmptyTable]
  /\ conns = [c \in ConnId |-> ConnInit]
  /\ links = [l \in LinkId |-> LinkInit]
  /\ backlog = [n \in Node |-> <<>>]
  /\ pc = [t \in Thread |-> "idle"]
  /\ loc = [t \in Thread |-> LocInit]
  /\ ret = [t \in Thread |-> RetInit]
  /\ alloc = [conn |-> 1, link |-> 1, entry |-> 1, time |-> 0, faults |-> 0,
              iofail |-> FALSE, ops |-> 0]
  /\ crashed = [n \in Node |-> FALSE]
  /\ ub = {}
  /\ cmdrx \in {KeysStart(bits) : bits \in PointerBits}

\* _nns_edge_add_conn (eh, x): the entry found under the key, or a new one
\* with data->id = x inserted under it (got is <<>> for NULL)
KeysAdd(x) ==
  LET key == GUINT_TO_POINTER_Build(cmdrx.bits, x)
      tbl == cmdrx.table
      new == NewEntry(x, Cardinality(DOMAIN tbl) + 1)
  IN
  /\ cmdrx.st = "keys"
  /\ cmdrx' = IF key \in DOMAIN tbl
              THEN [cmdrx EXCEPT !.op = "add", !.x = x, !.got = <<tbl[key]>>]
              ELSE [cmdrx EXCEPT !.op = "add", !.x = x, !.got = <<new>>,
                                 !.table = TablePut(tbl, key, new)]
  /\ UNCHANGED <<eh, lock, conn_table, conns, links, backlog, pc, loc, ret, alloc, crashed, ub>>

\* _nns_edge_get_conn (eh, x)
KeysGet(x) ==
  LET key == GUINT_TO_POINTER_Build(cmdrx.bits, x)
      tbl == cmdrx.table
  IN
  /\ cmdrx.st = "keys"
  /\ cmdrx' = [cmdrx EXCEPT !.op = "get", !.x = x,
                            !.got = IF key \in DOMAIN tbl THEN <<tbl[key]>> ELSE <<>>]
  /\ UNCHANGED <<eh, lock, conn_table, conns, links, backlog, pc, loc, ret, alloc, crashed, ub>>

NextKeys ==
  \/ \E x \in ClientIds : KeysAdd(x)
  \/ \E x \in ClientIds : KeysGet(x)

SpecKeys == InitKeys /\ [][NextKeys]_vars

(***************************************************************************)
(* Claims.                                                                  *)
(***************************************************************************)

\* C1: a connect whose callback returned non-success for the CAPABILITY event
\* has sent its ERROR frame, has closed the socket it opened, has registered
\* no outbound Connection and has returned a failure status.
C1_RejectedConnectAborts ==
  \A t \in AppThread :
    (ret[t].op = "connect" /\ ret[t].cb = "UNKNOWN") =>
      /\ ret[t].status # "NONE"
      /\ ret[t].sent = 1
      /\ conns[ret[t].conn].st = "freed"
      /\ \A k \in DOMAIN conn_table[ThreadNode(t)] :
           conn_table[ThreadNode(t)][k].sink_conn # ret[t].conn

\* C2: duplex bootstrap.  A is started as server, B as client; B's connect has
\* returned with B's callback accepting, both accept continuations have
\* completed for the identifier X that A generated, and no I/O step failed.
\* Then A's table and B's table each hold an entry for X with an inbound and
\* an outbound Connection.  Stated here for the runs in which A's callback
\* accepted B's capability as well.
C2_DuplexBootstrap ==
  \A X \in 1..(MaxTime + 1) :
    ( /\ eh["A"].is_server /\ ~eh["B"].is_server
      /\ pc["tB"] = "idle" /\ ret["tB"].op = "connect"
      /\ ret["tB"].cb = "NONE" /\ ret["tB"].id = X
      /\ pc["mA"] = "idle" /\ ret["mA"].op = "accept"
      /\ ret["mA"].cb = "NONE" /\ ret["mA"].id = X
      /\ pc["mB"] = "idle" /\ ret["mB"].op = "accept" /\ ret["mB"].id = X
      /\ ~alloc.iofail /\ ~crashed["A"] /\ ~crashed["B"] )
    => \A n \in Node :
         /\ X \in DOMAIN conn_table[n]
         /\ conn_table[n][X].src_conn # NULL
         /\ conn_table[n][X].sink_conn # NULL

\* C3: a request made while the table has no entry for the handle's own peer
\* identifier returns InvalidParameter, sends nothing and leaves the handle
\* usable (the process runs on, the lock is released).
C3_RequestWithoutEntry ==
  [][\A t \in NetThread :
       ( /\ pc[t] = "request" /\ pc'[t] # "request"
         /\ NNS_EDGE_MAGIC_IS_VALID(ThreadNode(t))
         /\ eh[ThreadNode(t)].client_id \notin DOMAIN conn_table[ThreadNode(t)] )
       => /\ pc'[t] = "idle"
          /\ ret'[t].op = "request" /\ ret'[t].status = "INVALID_PARAMETER"
          /\ ret'[t].sent = 0 /\ links' = links
          /\ ~crashed'[ThreadNode(t)] /\ lock'[ThreadNode(t)] = "free"]_vars

\* C4: a respond whose metadata names an entry of the table whose outbound
\* Connection is absent or fails the liveness check returns ConnectionFailure
\* and sends no frame.
C4_RespondDeadSink ==
  [][\A t \in NetThread :
       LET n == ThreadNode(t)
           d == loc[t].data
           id == g_ascii_strtoll(d.id_val)
       IN
       ( /\ pc[t] = "respond" /\ pc'[t] # "respond"
         /\ NNS_EDGE_MAGIC_IS_VALID(n)
         /\ d.has_id /\ id \in DOMAIN conn_table[n]
         /\ ~_nns_edge_check_connection(conn_table[n][id].sink_conn) )
       => /\ ret'[t].op = "respond" /\ ret'[t].status = "CONNECTION_FAILURE"
          /\ ret'[t].sent = 0 /\ links' = links]_vars

\* C5: a request made while the table has an entry for the handle's own peer
\* identifier whose outbound Connection is absent or fails the liveness check
\* returns ConnectionFailure and writes nothing to any socket.
C5_RequestDeadSink ==
  [][\A t \in NetThread :
       LET n == ThreadNode(t)
           id == eh[n].client_id
       IN
       ( /\ pc[t] = "request" /\ pc'[t] # "request"
         /\ NNS_EDGE_MAGIC_IS_VALID(n)
         /\ id \in DOMAIN conn_table[n]
         /\ ~_nns_edge_check_connection(conn_table[n][id].sink_conn) )
       => /\ pc'[t] = "idle"
          /\ ret'[t].op = "request" /\ ret'[t].status = "CONNECTION_FAILURE"
          /\ ret'[t].sent = 0 /\ links' = links]_vars

\* C5 (case reached): B's request has returned ConnectionFailure without a
\* write, the entry for B's own identifier being present with an outbound
\* Connection whose peer has closed and left nothing to read.
C5_DeadSinkRequested ==
  LET id == eh["B"].client_id IN
  /\ pc["tB"] = "idle" /\ ret["tB"].op = "request"
  /\ ret["tB"].status = "CONNECTION_FAILURE" /\ ret["tB"].sent = 0
  /\ ret["tB"].id = id
  /\ "request-null-conn-data" \notin ub
  /\ id \in DOMAIN conn_table["B"]
  /\ conn_table["B"][id].sink_conn # NULL
  /\ ~PeerOpen(conn_table["B"][id].sink_conn)
  /\ Len(InQ(conn_table["B"][id].sink_conn)) = 0

\* C6: a respond whose data carries no peer-identifier metadata, or carries an
\* identifier the table has no entry for, returns InvalidParameter, sends
\* nothing and leaves the connection table as it was.
C6_RespondWithoutEntry ==
  [][\A t \in NetThread :
       LET n == ThreadNode(t)
           d == loc[t].data
       IN
       ( /\ pc[t] = "respond" /\ pc'[t] # "respond"
         /\ NNS_EDGE_MAGIC_IS_VALID(n)
         /\ (~d.has_id \/ g_ascii_strtoll(d.id_val) \notin DOMAIN conn_table[n]) )
       => /\ pc'[t] = "idle"
          /\ ret'[t].op = "respond" /\ ret'[t].status = "INVALID_PARAMETER"
          /\ ret'[t].sent = 0 /\ links' = links
          /\ conn_table' = conn_table]_vars

\* C6 (case reached): A's respond for identifier 2 has returned
\* InvalidParameter without a write while A's table holds an entry, for
\* identifier 1 only.
C6_UnknownIdResponded ==
  /\ pc["tA"] = "idle" /\ ret["tA"].op = "respond"
  /\ ret["tA"].status = "INVALID_PARAMETER" /\ ret["tA"].sent = 0
  /\ ret["tA"].id = 2
  /\ DOMAIN conn_table["A"] = {1}

\* C7: receive rejects a header whose buffer count exceeds the fixed maximum
\* before any slot is allocated or written, so no slot at or beyond the
\* maximum is ever touched.
C7_ReceiveRejectsExcessCount ==
  /\ cmdrx.slots <= NNS_EDGE_DATA_LIMIT
  /\ cmdrx.num > NNS_EDGE_DATA_LIMIT =>
       /\ cmdrx.slots = 0
       /\ cmdrx.st = "done" => cmdrx.ret \notin {"NONE", "killed"}

\* C8: no public operation racing a release locks the handle's mutex or reads
\* a field of the handle after release has destroyed the lock and freed the
\* handle.
C8_NoUseAfterRelease ==
  ub \cap {"lock-after-release", "handle-read-after-free"} = {}

\* C9: every insertion into, replacement within and removal from a handle's
\* connection table is a step of a thread that holds the handle's lock.
C9_TableChangedUnderLock ==
  [][\A n \in Node :
       conn_table'[n] # conn_table[n] =>
         \E t \in Thread : ThreadNode(t) = n /\ pc'[t] # pc[t] /\ lock[n] = t]_vars

\* C10: a Connection whose memory has been freed has no receiver thread that
\* is still running or that has touched it since.
C10_ReceiverDoneBeforeFree ==
  \A c \in ConnId :
    conns[c].st = "freed" => conns[c].thread \in {"none", "exited"}

\* C11: a Connection closed while its receiver thread is blocked in a read
\* has that thread unblocked, so that the thread eventually leaves its loop,
\* and no entry of a connection table refers to a closed Connection.
C11_ClosedReceiverLeaves ==
  /\ \A c \in ConnId :
       (conns[c].st = "freed" /\ conns[c].thread = "recv" /\ ~crashed[conns[c].node])
         ~> (conns[c].thread = "exited" \/ crashed[conns[c].node])
  /\ [](\A c \in ConnId : \A n \in Node :
          conns[c].st = "freed" => c \notin TableConns(n))

\* C12: when request on node B returns success for an EdgeData with k buffers,
\* the receiver of the inbound Connection on node A gives the event callback
\* exactly one NEW_DATA_RECEIVED event whose EdgeData has the same k buffers
\* in the same order and carries, as "client_id", the identifier under which
\* A registered that Connection.
C12_Delivered(c, bufs) ==
  /\ conns[c].node = "A" /\ conns[c].side = "a"
  /\ \A k \in DOMAIN conn_table["A"] :
       conn_table["A"][k].src_conn = c => k = conns[c].tcid
  /\ conns[c].events =
       <<[event |-> "NEW_DATA_RECEIVED",
          data |-> EdgeData(TRUE, bufs, TRUE, FormatLong(conns[c].tcid))]>>

C12_RequestDelivered ==
  (ret["tB"].op = "request" /\ ret["tB"].status = "NONE" /\ ret["tB"].sent = 1)
    ~> (\E c \in ConnId : C12_Delivered(c, ret["tB"].bufs))

C14_AcceptConn(m) == IF pc[m] = "idle" THEN alloc.conn ELSE loc[m].conn

C14_AcceptFails(m) ==
  \/ /\ pc[m] = "idle" /\ Len(backlog'[ThreadNode(m)]) < Len(backlog[ThreadNode(m)])
     /\ pc'[m] = "idle" /\ ret'[m].status = "CONNECTION_FAILURE"
  \/ /\ \/ pc[m] = "acc_recv"
        \/ pc[m] \in {"add_lookup", "add_insert"} /\ loc[m].dir = "src"
     /\ pc'[m] = "idle" /\ ret'[m].status = "CONNECTION_FAILURE"
  \/ /\ pc[m] = "acc_recv"
     /\ conns'[loc[m].conn].thread = "nospawn"

C14_AcceptFailureCleansUp ==
  [][\A m \in LoopThread :
       C14_AcceptFails(m) =>
         LET c == C14_AcceptConn(m) IN
         /\ conns'[c].st = "freed" /\ ~conns'[c].socket
         /\ conn_table' = conn_table
         /\ \A n \in Node : \A k \in DOMAIN conn_table'[n] :
              conn_table'[n][k].src_conn # c /\ conn_table'[n][k].sink_conn # c]_vars

\* C15: a connect that fails at a handshake step (the socket cannot be
\* opened, the CAPABILITY frame cannot be received, the first frame is not
\* CAPABILITY, the reply cannot be sent) returns CONNECTION_FAILURE, has
\* closed the Connection it built, and has added no entry and no Connection
\* to the connection table.
C15_ConnectConn(t) == IF pc[t] = "connect" THEN alloc.conn ELSE loc[t].conn

C15_InTable(T, c) ==
  \E n \in Node : \E k \in DOMAIN T[n] : T[n][k].src_conn = c \/ T[n][k].sink_conn = c

C15_ConnectFails(t) ==
  /\ loc[t].op = "connect" /\ eh[ThreadNode(t)].event_cb
  /\ pc[t] \in {"connect", "tcp_recv", "add_lookup", "add_insert"}
  /\ pc'[t] = "idle"
  /\ ret'[t].status # "NONE" \/ ~C15_InTable(conn_table', C15_ConnectConn(t))

C16_LockedPcs == BodyPcs \cup {"tcp_recv", "add_lookup", "add_insert", "add_set"}

C16_Inside(n) ==
  {t \in AppThread : ThreadNode(t) = n /\ pc[t] \in C16_LockedPcs \cup {"lock_destroy", "free"}}

C16_OneOperationInside ==
  \A n \in Node :
    /\ Cardinality(C16_Inside(n)) <= 1
    /\ \A t \in AppThread :
         ThreadNode(t) = n /\ pc[t] \in C16_LockedPcs => lock[n] = t

\* C17: a connect call eventually returns, even when the peer has accepted
\* the TCP connection and never sends a frame: its blocking receive is ended
\* by cancellation or by the timeout of the socket.
C17_ConnectReturns ==
  \A t \in NetThread :
    (loc[t].op = "connect" /\ pc[t] \in {"connect", "tcp_recv"})
      ~> (pc[t] = "idle" \/ crashed[ThreadNode(t)])

\* C18: every run of the accept continuation, whether its handshake succeeds
\* or fails, ends with one asynchronous accept pending on the listener: a
\* listener whose continuation is running is eventually armed again, and it
\* is armed whenever no continuation runs, so that a later connection is
\* handled while the handle lives.
C18_OutOfModel(m) ==
  \/ pc[m] = "add_set" /\ (alloc.conn > MaxConn \/ alloc.link > MaxLink)
  \/ pc[m] = "add_insert" /\ alloc.entry > MaxEntry

C18_ListenerRearmed ==
  /\ [](\A m \in LoopThread :
          (pc[m] = "idle" /\ eh[ThreadNode(m)].listener /\ eh[ThreadNode(m)].mem = "live")
            => eh[ThreadNode(m)].armed)
  /\ (eh["A"].listener /\ ~eh["A"].armed)
       ~> (eh["A"].armed \/ crashed["A"] \/ C18_OutOfModel("mA"))

\* C19: a receive that fails on one Connection ends the receiver loop of
\* that Connection and clears its running flag, and nothing else: the
\* handle, the entries of every connection table, every other Connection
\* and every socket stay as they were, and no Connection or link is opened.
C19_ReceiveFailureIsLocal ==
  [][\A c \in ConnId :
       (conns[c].thread = "recv" /\ conns'[c].thread = "exited" /\ links' = links) =>
         /\ conns'[c] = [conns[c] EXCEPT !.running = 0, !.thread = "exited"]
         /\ \A d \in ConnId \ {c} : conns'[d] = conns[d]
         /\ eh' = eh
         /\ conn_table' = conn_table
         /\ backlog' = backlog
         /\ alloc'.conn = alloc.conn /\ alloc'.link = alloc.link
         /\ crashed' = crashed]_vars

C19_OneReceiverFailed ==
  \E c \in ConnId : \E d \in ConnId \ {c} :
    /\ conns[c].st = "live" /\ conns[c].thread = "exited" /\ conns[c].running = 0
    /\ conns[c].socket /\ PeerOpen(c)
    /\ NNS_EDGE_MAGIC_IS_VALID(conns[c].node)
    /\ c \in TableConns(conns[c].node)
    /\ conns[d].node = conns[c].node /\ conns[d].st = "live" /\ conns[d].socket
    /\ d \in TableConns(conns[c].node)

\* C20: frames sent on one Connection are never interleaved and are received
\* in the order sent: with two requests running at once on one handle, the
\* header and all buffers of one frame are written before any byte of the
\* other, and the receiver of the peer raises the NEW_DATA_RECEIVED events
\* of the frames in the order the frames were written, each with the
\* buffers its request was given.
C20_Headers(w) == SelectSeq(w, LAMBDA p : p.kind = "info")

C20_FramesInOrder ==
  \A l \in LinkId :
    LET w == links[l].wrote
        h == C20_Headers(w)
    IN
    /\ \A i \in 1..Len(w) : \A k \in i..Len(w) : \A j \in i..k :
         w[i].own = w[k].own => w[j].own = w[i].own
    /\ \A c \in ConnId :
         (conns[c].link = l /\ conns[c].side = "a" /\ conns[c].st = "live") =>
           /\ Len(conns[c].events) <= Len(h)
           /\ \A i \in 1..Len(conns[c].events) :
                /\ conns[c].events[i].event = "NEW_DATA_RECEIVED"
                /\ conns[c].events[i].data.bufs = h[i].bufs

C20_BothDelivered ==
  /\ ret["tA"].op = "request" /\ ret["tA"].status = "NONE"
  /\ ret["uA"].op = "request" /\ ret["uA"].status = "NONE"
  /\ ret["tA"].bufs # ret["uA"].bufs
  /\ Len(conns[4].events) = 2
  /\ conns[4].events[1].data.bufs # conns[4].events[2].data.bufs

\* C21: for every frame with a buffer count from 0 to NNS_EDGE_DATA_LIMIT,
\* what _nns_edge_cmd_receive returns with success from the byte stream
\* written by _nns_edge_cmd_send is the frame that was sent: same command,
\* peer identifier, buffer count, buffer sizes and payload bytes.
C21_Received(x) ==
  [cmd |-> ParseInfo(x.info).cmd, client_id |-> ParseInfo(x.info).client_id,
   num |-> ParseInfo(x.info).num, mem_size |-> ParseInfo(x.info).mem_size,
   mem |-> [i \in 1..ParseInfo(x.info).num |-> x.mem[i].bytes]]

C21_RoundTrip == cmdrx.r_ret = "NONE" => C21_Received(cmdrx) = cmdrx.tx

C21_MaxFrameReceived ==
  /\ cmdrx.r_ret = "NONE" /\ cmdrx.s_ret = "NONE"
  /\ cmdrx.tx.num = NNS_EDGE_DATA_LIMIT
  /\ \E i \in 1..cmdrx.tx.num : Len(cmdrx.tx.mem[i]) > 1

\* C22: over a transport that moves fewer bytes than asked for (at least
\* one per call), the units the socket has taken are at every moment the
\* first units of the frame, each once and in order, and what the receiver
\* has stored followed by what is in flight is what was taken; send reports
\* success only when the whole frame has been taken and receive only when it
\* has stored the whole frame.  Both loops come to an end: every turn of a
\* loop moves at least one unit forward or returns, and no more units are
\* moved than the frame has.
RECURSIVE C22_Flatten(_)
C22_Flatten(bufs) ==
  IF bufs = <<>> THEN <<>> ELSE Head(bufs) \o C22_Flatten(Tail(bufs))

C22_Encoded(f) ==
  <<CmdCode(f.cmd), f.client_id, f.num>> \o f.mem_size \o C22_Flatten(f.mem)

C22_Stored(x) ==
  IF x.r_n = 0 THEN SubSeq(x.info, 1, x.r_off)
  ELSE x.info \o C22_Flatten([i \in 1..(x.r_n - 1) |-> x.mem[i].bytes])
              \o SubSeq(x.mem[x.r_n].bytes, 1, x.r_off)

C22_Safe ==
  /\ Len(cmdrx.put) <= Len(C22_Encoded(cmdrx.tx))
  /\ cmdrx.put = SubSeq(C22_Encoded(cmdrx.tx), 1, Len(cmdrx.put))
  /\ cmdrx.s_ret = "NONE" => cmdrx.put = C22_Encoded(cmdrx.tx)
  /\ cmdrx.r_ret \in {"-", "NONE"} => C22_Stored(cmdrx) \o cmdrx.wire = cmdrx.put
  /\ cmdrx.r_ret = "NONE" => C22_Stored(cmdrx) = C22_Encoded(cmdrx.tx)

C22_Turn ==
  \/ /\ cmdrx.s_ret = "-"
     /\ Len(cmdrx'.put) > Len(cmdrx.put) \/ cmdrx'.s_ret # "-"
     /\ cmdrx'.wire = cmdrx.wire \o SubSeq(cmdrx'.put, Len(cmdrx.put) + 1, Len(cmdrx'.put))
     /\ cmdrx'.r_ret = cmdrx.r_ret
  \/ /\ cmdrx.r_ret = "-"
     /\ Len(cmdrx'.wire) < Len(cmdrx.wire) \/ cmdrx'.r_ret # "-"
     /\ cmdrx'.put = cmdrx.put /\ cmdrx'.s_ret = cmdrx.s_ret

C22_PartialTransfersComplete ==
  /\ [](cmdrx.st = "stream" => C22_Safe)
  /\ [][cmdrx.st = "stream" => C22_Turn]_vars

C22_ShortTransfersSucceeded ==
  /\ cmdrx.s_ret = "NONE" /\ cmdrx.r_ret = "NONE"
  /\ cmdrx.short_w /\ cmdrx.short_r
  /\ cmdrx.tx.num > 0

\* C23: when receive returns an error after the header was read (a buffer
\* read failed, or the allocation of a buffer failed), every buffer it
\* allocated for the frame, the one at the failing index included, has been
\* freed exactly once and every slot it wrote is NULL.
C23_FailedReceiveRollsBack ==
  cmdrx.r_ret \in {"IO", "OUT_OF_MEMORY"} =>
    /\ \A i \in 1..Len(cmdrx.mem) : cmdrx.mem[i].null
    /\ \A a \in 1..Len(cmdrx.mallocs) :
         Cardinality({k \in 1..Len(cmdrx.frees) : cmdrx.frees[k] = cmdrx.mallocs[a]}) = 1
    /\ Len(cmdrx.frees) = Len(cmdrx.mallocs)

C23_SecondBufferReadFailed ==
  /\ cmdrx.r_ret = "IO"
  /\ cmdrx.r_n = 2 /\ cmdrx.r_off > 0
  /\ Len(cmdrx.mallocs) = 2

\* C24: on a handle as created, after set_info (CAPS, v1) ... set_info (CAPS,
\* vn) the CAPABILITY frame that the accept side sends carries exactly the
\* concatenation v1 ... vn as its capability string.
C24_CapabilitySent(l) ==
  /\ links[l].st = "open" /\ links[l].a_node = "A"
  /\ Len(links'[l].a2d) = Len(links[l].a2d) + 1
  /\ links'[l].a2d[Len(links'[l].a2d)].cmd = "CAPABILITY"

C24_CapsIsWhatWasSet ==
  [][\A l \in LinkId :
       (C24_CapabilitySent(l) /\ eh["A"].caps_set # <<>>) =>
         links'[l].a2d[Len(links'[l].a2d)].mem = <<eh["A"].caps_set>>]_vars

\* C25: when the application's callback returns a status other than success
\* for NEW_DATA_RECEIVED, the receiver loop does not end and the Connection
\* is not closed: the receiver is back at the head of its loop, still
\* running, on the same open socket and the same table entry; a frame that
\* has arrived on the Connection is then received and handed to the callback.
C25_CallbackFailed(c) ==
  /\ Len(conns'[c].cbret) = Len(conns[c].cbret) + 1
  /\ conns'[c].cbret[Len(conns'[c].cbret)] # "NONE"

C25_LoopGoesOn(c) ==
  /\ conns'[c].thread = "top"
  /\ conns'[c].running = 1 /\ conns'[c].st = "live"
  /\ conns'[c].socket = conns[c].socket /\ conns'[c].socket
  /\ links'[conns[c].link].a_open = links[conns[c].link].a_open
  /\ links'[conns[c].link].d_open = links[conns[c].link].d_open
  /\ conn_table' = conn_table

\* a whole frame is queued for the receiver that is back at its loop head
\* after the callback failed on the previous frame
C25_NextFrameArrived(c) ==
  /\ conns[c].st = "live" /\ conns[c].side = "a" /\ conns[c].thread = "top"
  /\ conns[c].cbret = <<"UNKNOWN">>
  /\ Len(InQ(c)) > 0
  /\ Head(InQ(c)).kind = "info"
  /\ Len(InQ(c)) >= 1 + Head(InQ(c)).num

C25_NextFrameDelivered(c) ==
  /\ Len(conns[c].cbret) = 2 /\ Len(conns[c].events) = 2

C26_ReverseDialRegisters(m) ==
  /\ eh[ThreadNode(m)].is_server /\ ~alloc.iofail
  /\ pc[m] = "add_set" /\ loc[m].dir = "sink" /\ loc[m].inbound # NULL
  /\ pc'[m] = "idle" /\ ret'[m].status = "NONE"

C26_SamePeerId(m) ==
  \E k \in DOMAIN conn_table'[ThreadNode(m)] :
    /\ conn_table'[ThreadNode(m)][k].sink_conn = loc[m].conn
    /\ conn_table'[ThreadNode(m)][k].src_conn = loc[m].inbound

C26_ReverseDialSamePeer ==
  [][\A m \in LoopThread : C26_ReverseDialRegisters(m) => C26_SamePeerId(m)]_vars

\* C27: when the reverse dial of a server's accept continuation fails (the
\* dial itself, or a later step of its handshake), the inbound Connection
\* accepted by that continuation is closed and no entry of the connection
\* table refers to it.
C27_InboundOf(m) == IF loc[m].inbound # NULL THEN loc[m].inbound ELSE loc[m].conn

C27_ReverseDialFails(m) ==
  /\ eh[ThreadNode(m)].is_server
  /\ \/ pc[m] = "add_set" /\ loc[m].dir = "src"
     \/ loc[m].inbound # NULL
  /\ pc'[m] = "idle" /\ ret'[m].status = "CONNECTION_FAILURE"

C27_InboundDropped(m) ==
  /\ conns'[C27_InboundOf(m)].st = "freed"
  /\ \A k \in DOMAIN conn_table'[ThreadNode(m)] :
       conn_table'[ThreadNode(m)][k].src_conn # C27_InboundOf(m)

C27_FailedReverseDialCleansUp ==
  [][\A m \in LoopThread : C27_ReverseDialFails(m) => C27_InboundDropped(m)]_vars

\* C28: _nns_edge_close_connection on a Connection owned by a receiver
\* thread (the call found conn->running set) executes, in this order: running cleared and the cancellable
\* cancelled, the thread joined, the socket closed, the cancellable
\* released; so the cancellable has been cancelled before the socket is
\* closed.
C28_Before(L, a, k) == \E i \in 1..(k - 1) : i <= Len(L) /\ L[i] = a

C28_OwnedByReceiver ==
  /\ cmdrx.st = "close" /\ cmdrx.calls = 1
  /\ C28_Before(cmdrx.log, "clear_running", 2)

C28_CloseOrder ==
  C28_OwnedByReceiver =>
    \A k \in 1..Len(cmdrx.log) :
      /\ cmdrx.log[k] = "join" =>
           C28_Before(cmdrx.log, "clear_running", k) /\ C28_Before(cmdrx.log, "cancel", k)
      /\ cmdrx.log[k] = "close_socket" =>
           C28_Before(cmdrx.log, "join", k) /\ C28_Before(cmdrx.log, "cancel", k)
      /\ cmdrx.log[k] = "unref_cancellable" => C28_Before(cmdrx.log, "close_socket", k)

\* C29: a second _nns_edge_close_connection on the same Connection is a
\* no-op: it reads no freed memory, ends the process by no undefined
\* behaviour of its own, and executes none of the statements of a close.
C29_Count(L, a) == Len(SelectSeq(L, LAMBDA s : s = a))

C29_SecondCloseIsNoOp ==
  (cmdrx.st = "close" /\ cmdrx.calls = 2) =>
    /\ "close-of-freed-connection" \notin cmdrx.ub
    /\ \A a \in {"clear_running", "join", "close_socket", "unref_cancellable", "free"} :
         C29_Count(cmdrx.log, a) <= 1

\* C30: close-before-replace.  A step that stores a new Connection in a
\* direction of a table entry that already held one leaves the old one
\* closed and the Connection of the other direction as it was; and in every
\* state each table entry refers, per direction, to at most one Connection,
\* which has not been closed.
C30_Refs(T, n) ==
  {<<k, "src", T[n][k].src_conn>> : k \in DOMAIN T[n]} \cup
  {<<k, "sink", T[n][k].sink_conn>> : k \in DOMAIN T[n]}

C30_Replaced(n, k) ==
  /\ k \in DOMAIN conn_table[n] /\ k \in DOMAIN conn_table'[n]
  /\ conn_table[n][k].addr = conn_table'[n][k].addr
  /\ \/ /\ conn_table[n][k].src_conn # NULL
        /\ conn_table'[n][k].src_conn # conn_table[n][k].src_conn
        /\ conn_table'[n][k].src_conn # NULL
     \/ /\ conn_table[n][k].sink_conn # NULL
        /\ conn_table'[n][k].sink_conn # conn_table[n][k].sink_conn
        /\ conn_table'[n][k].sink_conn # NULL

C30_OldClosedOtherKept(n, k) ==
  LET e == conn_table[n][k]
      f == conn_table'[n][k]
  IN
  /\ e.src_conn # f.src_conn =>
       conns'[e.src_conn].st = "freed" /\ f.sink_conn = e.sink_conn
  /\ e.sink_conn # f.sink_conn =>
       conns'[e.sink_conn].st = "freed" /\ f.src_conn = e.src_conn

C30_EntriesLive ==
  \A n \in Node : \A r \in C30_Refs(conn_table, n) :
    r[3] # NULL => conns[r[3]].st = "live"

C31_Sent(l, q) == Len(links'[l][q]) > Len(links[l][q])

C31_Last(l, q) == links'[l][q][Len(links'[l][q])]

C31_AcceptorSends(l) ==
  C31_Sent(l, "a2d") =>
    /\ C31_Last(l, "a2d").cmd = "CAPABILITY"
    /\ links[l].a2d = <<>> /\ links[l].d2a = <<>>
    /\ \E m \in LoopThread :
         /\ pc[m] = "idle" /\ pc'[m] = "acc_recv"
         /\ conns[loc'[m].conn].st = "free"
         /\ conns'[loc'[m].conn].link = l /\ conns'[loc'[m].conn].side = "a"

C31_DiallerReplies(t) ==
  LET l == conns[loc[t].conn].link IN
  (pc[t] = "tcp_recv" /\ C31_Sent(l, "d2a")) =>
    /\ Head(links[l].a2d).cmd = "CAPABILITY"
    /\ links'[l].a2d = Tail(links[l].a2d)
    /\ Len(links'[l].d2a) = 1
    /\ pc'[t] # "tcp_recv"
    /\ loc'[t].cb \in {"NONE", "UNKNOWN"}
    /\ C31_Last(l, "d2a").cmd = (IF loc'[t].cb = "NONE" THEN "HOST_INFO" ELSE "ERROR")

C31_AcceptorGoesOn(m) ==
  (pc[m] = "acc_recv" /\
   (pc'[m] = "add_lookup" \/ conns'[loc[m].conn].running = 1)) =>
    /\ Head(InQ(loc[m].conn)).cmd = "HOST_INFO"
    /\ pc'[m] = "add_lookup" /\ conns'[loc[m].conn].running = 1

C31_Waiting ==
  /\ \A t \in Thread :
       pc[t] = "tcp_recv" => links[conns[loc[t].conn].link].d2a = <<>>
  /\ \A m \in LoopThread :
       pc[m] = "acc_recv" =>
         /\ Len(links[conns[loc[m].conn].link].a2d) <= 1
         /\ conns[loc[m].conn].running = 0
         /\ \A n \in Node : \A k \in DOMAIN conn_table[n] :
              conn_table[n][k].src_conn # loc[m].conn
  /\ \A n \in Node : \A k \in DOMAIN conn_table[n] :
       conn_table[n][k].src_conn # NULL =>
         conns[conn_table[n][k].src_conn].tcid # 0
         \/ conns[conn_table[n][k].src_conn].thread = "nospawn"
         \/ conns[conn_table[n][k].src_conn].st = "freed"

C31_HandshakeOrder ==
  /\ []C31_Waiting
  /\ [][/\ \A l \in LinkId : C31_AcceptorSends(l)
        /\ \A t \in Thread : C31_DiallerReplies(t)
        /\ \A m \in LoopThread : C31_AcceptorGoesOn(m)]_vars

C31_ErrorReplyRefused ==
  /\ ~alloc.iofail
  /\ ret["tB"].op = "connect" /\ ret["tB"].cb = "UNKNOWN"
  /\ ret["mA"].op = "accept" /\ ret["mA"].status = "CONNECTION_FAILURE"
  /\ conn_table["A"] = EmptyTable

\* C32: in the receiver loop a received ERROR frame ends the loop without
\* a callback; a frame that is neither ERROR nor TRANSFER_DATA is dropped
\* without a callback and the loop goes on; and the callback is invoked,
\* with NEW_DATA_RECEIVED and once, only for a TRANSFER_DATA frame.
C32_Receives(c) ==
  /\ conns[c].st = "live" /\ conns[c].thread = "recv"
  /\ Len(InQ(c)) > 0
  /\ links'[conns[c].link].d2a = Tail(links[conns[c].link].d2a)

C32_Handled(c) ==
  LET f == Head(InQ(c)) IN
  /\ f.cmd = "ERROR" =>
       /\ conns'[c].thread = "exited" /\ conns'[c].running = 0
       /\ conns'[c].events = conns[c].events
  /\ f.cmd \notin {"ERROR", "TRANSFER_DATA"} =>
       /\ conns'[c].thread = "top" /\ conns'[c].running = 1
       /\ conns'[c].events = conns[c].events
  /\ f.cmd = "TRANSFER_DATA" =>
       /\ Len(conns'[c].events) = Len(conns[c].events) + 1
       /\ conns'[c].events[Len(conns'[c].events)].event = "NEW_DATA_RECEIVED"
       /\ conns'[c].events[Len(conns'[c].events)].data.bufs = f.mem

C32_CallbackOnlyForData ==
  \A c \in ConnId :
    conns[c].st = "live" /\ conns[c].side = "a" =>
      Len(conns[c].events) <=
        Len(SelectSeq(links[conns[c].link].wrote, LAMBDA f : f.cmd = "TRANSFER_DATA"))

C32_LoopOnCommand ==
  /\ []C32_CallbackOnlyForData
  /\ [][\A c \in ConnId :
          /\ C32_Receives(c) => C32_Handled(c)
          /\ conns'[c].events # conns[c].events => C32_Receives(c)]_vars

C32_DataAfterOtherCommand ==
  /\ Len(links[2].wrote) = 2
  /\ links[2].wrote[1].cmd = "HOST_INFO" /\ links[2].wrote[2].cmd = "TRANSFER_DATA"
  /\ Len(conns[4].events) = 1 /\ conns[4].events[1].data.bufs = <<11>>
  /\ links[2].d2a = <<>>

\* C33: _nns_edge_cmd_send gives up the whole frame at the first write that
\* fails: the step in which the write of the header or of buffer k fails
\* takes no unit, returns NNS_EDGE_ERROR_IO and leaves the position where it
\* was, so that what the socket has taken ends inside the header or inside
\* buffer k and holds nothing of a later buffer; after send has returned the
\* socket takes nothing more; and send returns success only with the header
\* followed by every buffer in index order taken in full.
RECURSIVE C33_PartStart(_, _)
C33_PartStart(f, n) ==
  IF n = 0 THEN 0
  ELSE IF n = 1 THEN InfoLen
  ELSE f.mem_size[n - 1] + C33_PartStart(f, n - 1)

C33_InOrder(f) ==
  InfoBytes(f) \o C22_Flatten([i \in 1..f.num |-> f.mem[i]])

C33_Returned ==
  /\ cmdrx.s_ret = "IO" =>
       /\ cmdrx.s_off < SendSize(cmdrx)
       /\ Len(cmdrx.put) = C33_PartStart(cmdrx.tx, cmdrx.s_n) + cmdrx.s_off
       /\ cmdrx.put = SubSeq(C33_InOrder(cmdrx.tx), 1, Len(cmdrx.put))
  /\ cmdrx.s_ret = "NONE" =>
       /\ cmdrx.s_n = cmdrx.tx.num
       /\ cmdrx.put = C33_InOrder(cmdrx.tx)

C33_SendTurn ==
  IF cmdrx.s_ret # "-"
  THEN cmdrx'.put = cmdrx.put /\ cmdrx'.s_ret = cmdrx.s_ret
  ELSE \/ cmdrx'.put = cmdrx.put /\ cmdrx'.s_ret = "-"
            /\ cmdrx'.s_n = cmdrx.s_n /\ cmdrx'.s_off = cmdrx.s_off
       \/ Len(cmdrx'.put) > Len(cmdrx.put) /\ cmdrx'.s_ret \in {"-", "NONE"}
       \/ cmdrx'.put = cmdrx.put /\ cmdrx'.s_ret = "IO"
            /\ cmdrx'.s_n = cmdrx.s_n /\ cmdrx'.s_off = cmdrx.s_off

C33_FailedWriteAbortsFrame ==
  /\ [](cmdrx.st = "stream" => C33_Returned)
  /\ [][cmdrx.st = "stream" => C33_SendTurn]_vars

C33_FirstBufferWriteFailed ==
  /\ cmdrx.s_ret = "IO"
  /\ cmdrx.s_n = 1 /\ cmdrx.s_off > 0
  /\ cmdrx.tx.num >= 2
  /\ Len(cmdrx.put) = InfoLen + cmdrx.s_off

\* C34: the step in which nns_edge_disconnect returns success leaves the
\* connection table of the handle empty; every Connection the table held,
\* src_conn and sink_conn of every entry, was held in one place only, had not
\* been closed before and is closed by the step; and the handle is as it
\* was: live, with a valid marker, the same configuration and the same
\* listener, so that later operations pass the handle test.
C34_Held(n) ==
  {<<k, d>> \in (DOMAIN conn_table[n]) \X {"src", "sink"} :
     (IF d = "src" THEN conn_table[n][k].src_conn ELSE conn_table[n][k].sink_conn) # NULL}

C34_At(n, r) ==
  IF r[2] = "src" THEN conn_table[n][r[1]].src_conn ELSE conn_table[n][r[1]].sink_conn

C34_Returns(t) ==
  /\ pc[t] = "disconnect" /\ pc'[t] = "idle"
  /\ ret'[t].op = "disconnect" /\ ret'[t].status = "NONE"

C34_ClosedOnce(n) ==
  \A r \in C34_Held(n) :
    /\ conns[C34_At(n, r)].st = "live"
    /\ conns'[C34_At(n, r)].st = "freed"
    /\ \A q \in C34_Held(n) : C34_At(n, q) = C34_At(n, r) => q = r

C34_HandleKept(n) ==
  /\ eh'[n] = eh[n]
  /\ eh'[n].mem = "live" /\ NNS_EDGE_MAGIC_IS_VALID(n)
  /\ backlog'[n] = backlog[n]

C35_Released(n) ==
  \E t \in AppThread :
    ThreadNode(t) = n /\ ret[t].op = "release" /\ ret[t].status = "NONE"

C35_QuietAfterRelease ==
  [][\A c \in ConnId :
       C35_Released(conns[c].node) =>
         /\ conns'[c].events = conns[c].events
         /\ "handle-read-by-receiver" \in ub' => "handle-read-by-receiver" \in ub]_vars

\* C36: once nns_edge_release_handle has returned on a handle that was
\* started, the listener of the handle has no accept armed, and no step
\* takes a connection from the listener's queue or runs the accept
\* continuation with the handle.
C36_Released(n) ==
  \E t \in AppThread :
    ThreadNode(t) = n /\ ret[t].op = "release" /\ ret[t].status = "NONE"

C36_NoAcceptAfterRelease ==
  /\ [](\A n \in Node : C36_Released(n) /\ eh[n].listener => ~eh[n].armed)
  /\ [][\A n \in Node :
          C36_Released(n) =>
            /\ Len(backlog'[n]) >= Len(backlog[n])
            /\ "handle-read-by-accept" \notin ub']_vars

\* C37: the step in which nns_edge_connect returns a failure status leaves
\* eh->client_id as it was when the call was made, and the connection table
\* too (compared while the accept continuation of the node, which changes
\* the table on its own, has not run).
C37_Fails(t) ==
  /\ pc[t] # "idle" /\ pc'[t] = "idle"
  /\ ret'[t].op = "connect" /\ ret'[t].status # "NONE"

C37_FailedConnectChangesNothing ==
  [][C37_Fails("tB") =>
       /\ eh'["B"].client_id = loc["tB"].was.client_id
       /\ (pc["mB"] = "idle" /\ ret["mB"].op = "none")
            => conn_table'["B"] = loc["tB"].was.table]_vars

\* C38: a handshake step that takes a frame without buffers from the socket
\* (the reply awaited by the accept continuation, or the frame awaited by
\* _nns_edge_tcp_connect) ends the handshake with a failure status and leaves
\* the connection table as it was; it does not go on with a payload that the
\* frame did not carry.
C38_TakesEmptyFrame(t) ==
  /\ pc[t] \in {"acc_recv", "tcp_recv"}
  /\ loc[t].conn # NULL
  /\ Len(InQ(loc[t].conn)) > 0
  /\ Head(InQ(loc[t].conn)).num = 0
  /\ pc'[t] # pc[t]
  /\ links' # links

C38_EmptyHandshakeFrameFails ==
  [][\A t \in Thread :
       C38_TakesEmptyFrame(t) =>
         /\ pc'[t] = "idle"
         /\ ret'[t].status \notin {"-", "NONE"}
         /\ conn_table' = conn_table]_vars

\* C39: the lock of a handle is held only by a thread that is inside the
\* body of a public operation, so every return, with success or with an
\* error, has released it; whenever every application thread of a live
\* handle is outside the operations or still waiting for the lock, the lock
\* is free.
C39_Outside(t) == pc[t] \in {"idle", "lock"}

C39_LockFreeBetweenOperations ==
  \A n \in Node :
    /\ \A t \in AppThread : lock[n] = t => ThreadNode(t) = n /\ ~C39_Outside(t)
    /\ (eh[n].mem = "live" /\ ~crashed[n]
        /\ \A t \in AppThread : ThreadNode(t) = n => C39_Outside(t))
         => lock[n] = "free"

C39_LockTakenAfterErrorReturn ==
  /\ pc["tA"] = "idle" /\ ret["tA"].status \notin {"-", "NONE"}
  /\ eh["A"].mem = "live" /\ NNS_EDGE_MAGIC_IS_VALID("A")
  /\ lock["A"] = "uA" /\ ~C39_Outside("uA")

\* C40: the entry that _nns_edge_add_conn or _nns_edge_get_conn returns for
\* an identifier is an entry of that identifier, never the entry of another
\* one, whatever the two have in common in their low 32 bits; and no entry
\* of the table is replaced by an addition.
C40_OwnEntry ==
  (cmdrx.st = "keys" /\ cmdrx.got # <<>>) => cmdrx.got[1].id = cmdrx.x

C40_TableDistinguishesIds ==
  /\ [](C40_OwnEntry)
  /\ [][cmdrx.st = "keys" =>
          \A k \in DOMAIN cmdrx.table :
            k \in DOMAIN cmdrx'.table /\ cmdrx'.table[k] = cmdrx.table[k]]_vars
====
